---- MODULE Spec2Model ----
(***************************************************************************)
(* Model of sleep_analysis/log_parser.py: the value parsers (_parse_time,  *)
(* _parse_duration), the week header recognizer (_parse_week_header) and   *)
(* the line-oriented log parser (parse_log).                                *)
(*                                                                         *)
(* Text is modelled at character level: a string is a sequence of          *)
(* one-character strings, so that strip/split/regular-expression matching  *)
(* and integer parsing/formatting are computed as the code computes them.  *)
(***************************************************************************)
EXTENDS Integers, Sequences, FiniteSets, TLC

VARIABLES
    \* ---- parse_log (log_parser.py:300-399) ----
    pc,          \* position in parse_log: "loop", "check", "done"
    nread,       \* number of lines of the file the loop has consumed
    line,        \* raw_line of the latest loop iteration (without the newline)
    records,     \* records: list of per-day dictionaries
    week_label,  \* week_label: None or the label of the active week
    week_days,   \* week_days: list of dates of the active week
    week_data,   \* week_data: dict column -> list of parsed values
    result,      \* outcome of parse_log: "running", "ok", "duplicate", "error"
    \* ---- direct calls of the pure helper functions ----
    fn,          \* the helper that is called ("parse_log" in the parse_log runs)
    arg,         \* its argument (a string)
    ret          \* its return value, Pending before the call

vars == <<pc, nread, line, records, week_label, week_days, week_data, result,
          fn, arg, ret>>

-----------------------------------------------------------------------------
(* Python values *)

None == [kind |-> "none"]
Pending == [kind |-> "pending"]
Raised == [kind |-> "raise"]
Time(h, m) == [kind |-> "time", hour |-> h, minute |-> m]
Date(y, m, d) == [kind |-> "date", year |-> y, month |-> m, day |-> d]
\* a float, kept exact as the fraction num/den in lowest terms
Float(n, d) == [kind |-> "float", num |-> n, den |-> d]
Text(s) == [kind |-> "str", chars |-> s]

-----------------------------------------------------------------------------
(* Characters and strings *)

DigitChars == <<"0", "1", "2", "3", "4", "5", "6", "7", "8", "9">>

IsDigit(c) == \E i \in 1..Len(DigitChars) : DigitChars[i] = c

DigitVal(c) == (CHOOSE i \in 1..Len(DigitChars) : DigitChars[i] = c) - 1

LowerChars == <<"a", "b", "c", "d", "e", "f", "g", "h", "i", "j", "k", "l", "m",
                "n", "o", "p", "q", "r", "s", "t", "u", "v", "w", "x", "y", "z">>

UpperChars == <<"A", "B", "C", "D", "E", "F", "G", "H", "I", "J", "K", "L", "M",
                "N", "O", "P", "Q", "R", "S", "T", "U", "V", "W", "X", "Y", "Z">>

IsAlpha(c) == \E i \in 1..Len(LowerChars) : LowerChars[i] = c \/ UpperChars[i] = c

\* str.lower() of one character
Lower(c) ==
    IF \E i \in 1..Len(UpperChars) : UpperChars[i] = c
    THEN LowerChars[CHOOSE i \in 1..Len(UpperChars) : UpperChars[i] = c]
    ELSE c

\* the characters str.strip() and str.split() treat as whitespace
IsSpace(c) == c \in {" ", "\t", "\n"}

RECURSIVE LStrip(_)
LStrip(s) ==
    IF s # <<>> /\ IsSpace(Head(s)) THEN LStrip(Tail(s)) ELSE s

RECURSIVE RStrip(_)
RStrip(s) ==
    IF s # <<>> /\ IsSpace(s[Len(s)]) THEN RStrip(SubSeq(s, 1, Len(s) - 1)) ELSE s

\* str.strip()
Strip(s) == RStrip(LStrip(s))

\* int(s) for a run of digits
RECURSIVE ToInt(_)
ToInt(s) ==
    IF s = <<>> THEN 0
    ELSE ToInt(SubSeq(s, 1, Len(s) - 1)) * 10 + DigitVal(s[Len(s)])

\* length of the maximal run of digits at the start of s
RECURSIVE DigitRun(_)
DigitRun(s) ==
    IF s # <<>> /\ IsDigit(Head(s)) THEN 1 + DigitRun(Tail(s)) ELSE 0

\* [int(n) for n in re.findall(r"\d+", s)]
RECURSIVE FindAllInts(_)
FindAllInts(s) ==
    IF s = <<>> THEN <<>>
    ELSE IF IsDigit(Head(s))
         THEN LET k == DigitRun(s)
              IN  <<ToInt(SubSeq(s, 1, k))>> \o FindAllInts(SubSeq(s, k + 1, Len(s)))
         ELSE FindAllInts(Tail(s))

\* str(n) for n >= 0
RECURSIVE IntToStr(_)
IntToStr(n) ==
    IF n < 10 THEN <<DigitChars[n + 1]>>
    ELSE IntToStr(n \div 10) \o <<DigitChars[(n % 10) + 1]>>

\* f"{n:02d}" for n >= 0
Format02d(n) ==
    LET s == IntToStr(n) IN IF Len(s) < 2 THEN <<"0">> \o s ELSE s

-----------------------------------------------------------------------------
(* _parse_time (log_parser.py:64, 76-104) *)

\* s.lower() = w, for the lower-case word w
LowerEquals(s, w) ==
    /\ Len(s) = Len(w)
    /\ \A i \in 1..Len(s) : Lower(s[i]) = w[i]

IsDigits(s) == s # <<>> /\ \A i \in 1..Len(s) : IsDigit(s[i])

NoMatch == [matched |-> FALSE, g1 |-> <<>>, g2 |-> <<>>, g3 |-> <<>>]

\* _TIME_RE.match(s) for ^(\d{1,2})(?::(\d{2}))?(am|pm)?$ with re.IGNORECASE:
\* the three groups, an absent group as the empty string.  The hour group is
\* the whole leading run of digits, since only ':', a letter or the end of
\* the string may follow it.
TimeReMatch(s) ==
    LET k == DigitRun(s)
        rest == SubSeq(s, k + 1, Len(s))
        hasMin == rest # <<>> /\ Head(rest) = ":"
        g2 == IF hasMin THEN SubSeq(rest, 2, IF Len(rest) < 3 THEN Len(rest) ELSE 3)
              ELSE <<>>
        tail == IF hasMin /\ Len(rest) >= 3 THEN SubSeq(rest, 4, Len(rest))
                ELSE IF hasMin THEN <<>> ELSE rest
    IN  IF k \notin 1..2 THEN NoMatch
        ELSE IF hasMin /\ ~(Len(g2) = 2 /\ IsDigits(g2)) THEN NoMatch
        ELSE IF ~(tail = <<>> \/ LowerEquals(tail, <<"a", "m">>)
                              \/ LowerEquals(tail, <<"p", "m">>)) THEN NoMatch
        ELSE [matched |-> TRUE, g1 |-> SubSeq(s, 1, k), g2 |-> g2, g3 |-> tail]

\* MeridiemHour with noon and midnight not told apart: 12 is added for every pm
MeridiemHour_NoTwelve(hour, ampm) ==
    IF LowerEquals(ampm, <<"p", "m">>) THEN hour + 12 ELSE hour

\* the hour after the am/pm adjustment of lines 91-96
MeridiemHour(hour, ampm) ==
    IF ampm = <<>> THEN hour
    ELSE IF LowerEquals(ampm, <<"p", "m">>) /\ hour # 12 THEN hour + 12
    ELSE IF LowerEquals(ampm, <<"a", "m">>) /\ hour = 12 THEN 0
    ELSE hour

\* datetime.time(h, m), None where the constructor raises ValueError (which
\* the except clause of _parse_time turns into None)
TimeOrNone(h, m) ==
    IF h \in 0..23 /\ m \in 0..59 THEN Time(h, m) ELSE None

\* what pandas.to_datetime(value).time() may give for a value the strict
\* pattern rejects: None stands for an exception (caught at line 102), the
\* times for values the permissive parser accepts
PandasOutcomes == {None, Time(0, 0), Time(13, 45)}

\* _parse_time(value); fallback is the outcome of the pandas call of line 100
_parse_time(value, fallback) ==
    IF value = <<".">> \/ value = <<>> THEN None
    ELSE LET v == Strip(value)
             m == TimeReMatch(v)
         IN  IF m.matched
             THEN LET hour == MeridiemHour(ToInt(m.g1), m.g3)
                      minute == IF m.g2 = <<>> THEN 0 ELSE ToInt(m.g2)
                  IN  TimeOrNone(hour % 24, minute)
             ELSE fallback

-----------------------------------------------------------------------------
(* _parse_duration (log_parser.py:107-130) and float() *)

RECURSIVE Gcd(_, _)
Gcd(a, b) == IF b = 0 THEN a ELSE Gcd(b, a % b)

\* the float n/d (d > 0) in lowest terms
Fraction(n, d) ==
    LET g == Gcd(IF n < 0 THEN -n ELSE n, d)
    IN  IF n = 0 THEN Float(0, 1) ELSE Float(n \div g, d \div g)

RECURSIVE Pow10(_)
Pow10(k) == IF k = 0 THEN 1 ELSE 10 * Pow10(k - 1)

\* index of the first c in s, 0 when there is none
RECURSIVE IndexOf(_, _)
IndexOf(s, c) ==
    IF s = <<>> THEN 0
    ELSE IF Head(s) = c THEN 1
    ELSE LET i == IndexOf(Tail(s), c) IN IF i = 0 THEN 0 ELSE i + 1

\* s.split(c)
RECURSIVE SplitOn(_, _)
SplitOn(s, c) ==
    LET i == IndexOf(s, c)
    IN  IF i = 0 THEN <<s>>
        ELSE <<SubSeq(s, 1, i - 1)>> \o SplitOn(SubSeq(s, i + 1, Len(s)), c)

\* float(s) for the decimal spellings [+-]digits[.digits] and [+-].digits,
\* None where float raises ValueError.  (The exponent, underscore, "inf" and
\* "nan" spellings float also accepts are not among the tokens of the model.)
ParseFloat(s) ==
    LET v == Strip(s)
        neg == v # <<>> /\ Head(v) = "-"
        u == IF v # <<>> /\ Head(v) \in {"-", "+"} THEN Tail(v) ELSE v
        k == DigitRun(u)
        rest == SubSeq(u, k + 1, Len(u))
        frac == IF rest # <<>> /\ Head(rest) = "." THEN Tail(rest) ELSE <<>>
        ok == /\ \/ rest = <<>>
                 \/ Head(rest) = "." /\ (frac = <<>> \/ IsDigits(frac))
              /\ k + Len(frac) > 0
        mag == ToInt(SubSeq(u, 1, k)) * Pow10(Len(frac)) + ToInt(frac)
    IN  IF ~ok THEN None
        ELSE Fraction(IF neg THEN -mag ELSE mag, Pow10(Len(frac)))

\* characters str.isdigit() accepts and int() rejects (digits that are not
\* decimal digits, such as the superscript two)
NonDecimalDigits == {"²"}

\* p.isdigit(): every character is a digit, decimal or not, and there is one
StrIsDigit(s) ==
    s # <<>> /\ \A i \in 1..Len(s) : IsDigit(s[i]) \/ s[i] \in NonDecimalDigits

\* _parse_duration(value): hours as a float, or None; Raised where int() of
\* line 125 raises ValueError, which nothing catches
_parse_duration(value) ==
    IF value = <<".">> \/ value = <<>> THEN None
    ELSE LET v == Strip(value)
             m == TimeReMatch(v)
             t == IF m.matched /\ m.g3 # <<>> THEN _parse_time(v, None) ELSE None
             parts == SplitOn(v, ":")
         IN  IF t # None THEN Fraction(t.hour * 60 + t.minute, 60)
             ELSE IF Len(parts) = 2 /\ StrIsDigit(parts[1]) /\ StrIsDigit(parts[2])
                  THEN IF IsDigits(parts[1]) /\ IsDigits(parts[2])
                       THEN Fraction(ToInt(parts[1]) * 60 + ToInt(parts[2]), 60)
                       ELSE Raised
             ELSE ParseFloat(v)

-----------------------------------------------------------------------------
(* datetime.date arithmetic *)

\* year: the fixed year _parse_week_header gives the start date
year == 2025

IsLeap(y) == (y % 4 = 0) /\ ((y % 100 # 0) \/ (y % 400 = 0))

DaysInMonth(y, m) ==
    IF m = 2 THEN (IF IsLeap(y) THEN 29 ELSE 28)
    ELSE IF m \in {4, 6, 9, 11} THEN 30 ELSE 31

DaysInYear(y) == IF IsLeap(y) THEN 366 ELSE 365

\* datetime.date(y, m, d) raises ValueError unless this holds
ValidDate(y, m, d) ==
    /\ m \in 1..12
    /\ d \in 1..DaysInMonth(y, m)

RECURSIVE DaysBeforeMonth(_, _)
DaysBeforeMonth(y, m) ==
    IF m <= 1 THEN 0 ELSE DaysBeforeMonth(y, m - 1) + DaysInMonth(y, m - 1)

RECURSIVE DaysBeforeYear(_)
DaysBeforeYear(y) ==
    IF y <= year THEN 0 ELSE DaysBeforeYear(y - 1) + DaysInYear(y - 1)

\* day number of a date, counted from January 1st of the default year
Ordinal(dt) == DaysBeforeYear(dt.year) + DaysBeforeMonth(dt.year, dt.month) + dt.day

RECURSIVE FromYearDay(_, _, _)
FromYearDay(y, m, n) ==
    IF n > DaysInMonth(y, m) THEN FromYearDay(y, m + 1, n - DaysInMonth(y, m))
    ELSE Date(y, m, n)

RECURSIVE FromOrdinalIn(_, _)
FromOrdinalIn(y, n) ==
    IF n > DaysInYear(y) THEN FromOrdinalIn(y + 1, n - DaysInYear(y))
    ELSE FromYearDay(y, 1, n)

FromOrdinal(n) == FromOrdinalIn(year, n)

\* (a - b).days
DaysBetween(a, b) == Ordinal(a) - Ordinal(b)

\* dt + datetime.timedelta(days=i)
AddDays(dt, i) == FromOrdinal(Ordinal(dt) + i)

-----------------------------------------------------------------------------
(* _parse_week_header (log_parser.py:259-297) *)

WeekHeaderLabel(start, em, ed) ==
    Format02d(start.month) \o Format02d(start.day) \o <<"-">>
        \o Format02d(em) \o Format02d(ed)

\* WeekHeaderDays with the end date left out: range(delta)
WeekHeaderDays_Exclusive(start, delta) ==
    [i \in 1..(IF delta > 0 THEN delta ELSE 0) |-> AddDays(start, i - 1)]

\* the days of the range: [start + timedelta(days=i) for i in range(delta + 1)]
WeekHeaderDays(start, delta) ==
    [i \in 1..(IF delta + 1 > 0 THEN delta + 1 ELSE 0) |-> AddDays(start, i - 1)]

\* WeekHeaderEnd without the year rollover
WeekHeaderEnd_NoRollover(start, sm, em, ed) == Date(year, em, ed)

\* the end date after the rollover step (lines 288-294); Raised when
\* datetime.date rejects the rolled-over date
WeekHeaderEnd(start, sm, em, ed) ==
    LET end == Date(year, em, ed)
    IN  IF DaysBetween(end, start) < 0
        THEN LET y2 == year + (IF em < sm THEN 1 ELSE 0)
             IN  IF ValidDate(y2, em, ed) THEN Date(y2, em, ed) ELSE Raised
        ELSE end

\* None when the line holds fewer than three integers, Raised when
\* datetime.date raises ValueError, else the pair (label, days)
_parse_week_header(ln) ==
    LET nums == FindAllInts(Strip(ln))
    IN  IF Len(nums) < 3 THEN None
        ELSE LET sm == nums[1]
                 sd == nums[2]
                 em == IF Len(nums) >= 4 THEN nums[3] ELSE sm
                 ed == IF Len(nums) >= 4 THEN nums[4] ELSE nums[3]
             IN  IF ~ValidDate(year, sm, sd) \/ ~ValidDate(year, em, ed) THEN Raised
                 ELSE LET start == Date(year, sm, sd)
                          end == WeekHeaderEnd(start, sm, em, ed)
                      IN  IF end = Raised THEN Raised
                          ELSE [kind |-> "ok",
                                label |-> WeekHeaderLabel(start, em, ed),
                                days |-> WeekHeaderDays(start, DaysBetween(end, start))]

-----------------------------------------------------------------------------
(* Direct calls of _parse_week_header: the lines it is called with *)

\* indentation or weekday abbreviation in front of the start date
HeaderLeads == {<<>>, <<"T", "u", "e">>, <<"F", "r", "i">>, <<" ", " ", "F", "r", "i">>}

\* weekday abbreviation in front of the end date
HeaderMids == {<<>>, <<"M", "o", "n">>, <<"W", "e", "d">>}

HeaderMonths == {0, 1, 2, 4, 12, 13}

HeaderDays == {0, 1, 5, 25, 29, 30, 32}

\* the integers written on the line, in order
HeaderNums ==
    {<<>>, <<4>>, <<4, 25>>, <<12, 30, 1, 5, 7>>, <<4, 25, 4, 30, 2026>>}
        \cup {<<sm, sd, ed>> : sm \in HeaderMonths, sd \in HeaderDays, ed \in HeaderDays}
        \cup {<<sm, sd, em, ed>> : sm \in HeaderMonths, sd \in HeaderDays,
                                   em \in HeaderMonths, ed \in HeaderDays}

HeaderArgs ==
    [lead : HeaderLeads, mid : HeaderMids, nums : HeaderNums, pad : BOOLEAN]

\* the k-th integer as written: months plain, days zero-padded when a.pad
HeaderNumText(a, k) ==
    IF a.pad /\ k % 2 = 0 /\ Len(a.nums) # 3 THEN Format02d(a.nums[k])
    ELSE IF a.pad /\ k = 3 /\ Len(a.nums) = 3 THEN Format02d(a.nums[k])
    ELSE IntToStr(a.nums[k])

\* the separator written in front of the k-th integer
HeaderSep(a, k) ==
    IF k = 1 THEN a.lead
    ELSE IF k = 3 THEN <<"-">> \o a.mid
    ELSE IF k = 4 /\ Len(a.nums) # 3 THEN <<"/">>
    ELSE IF k = 2 THEN <<"/">>
    ELSE <<"-">>

RECURSIVE HeaderTextUpTo(_, _)
HeaderTextUpTo(a, k) ==
    IF k = 0 THEN <<>>
    ELSE HeaderTextUpTo(a, k - 1) \o HeaderSep(a, k) \o HeaderNumText(a, k)

\* the text of the line, such as "Tue12/30-Mon1/05" or "Thu6/19-Wed25"
HeaderText(a) ==
    IF a.nums = <<>> THEN a.lead ELSE HeaderTextUpTo(a, Len(a.nums))

InitWeekHeader ==
    /\ fn = "_parse_week_header"
    /\ arg \in HeaderArgs
    /\ ret = Pending
    /\ pc = "done"
    /\ nread = 0
    /\ line = <<>>
    /\ records = <<>>
    /\ week_label = None
    /\ week_days = <<>>
    /\ week_data = <<>>
    /\ result = "running"

CallParseWeekHeader ==
    /\ fn = "_parse_week_header"
    /\ ret = Pending
    /\ ret' = _parse_week_header(HeaderText(arg))
    /\ UNCHANGED <<pc, nread, line, records, week_label, week_days, week_data,
                   result, fn, arg>>

NextWeekHeader == CallParseWeekHeader

SpecWeekHeader == InitWeekHeader /\ [][NextWeekHeader]_vars

-----------------------------------------------------------------------------
(* Properties of _parse_week_header, checked under SpecWeekHeader *)

\* the calendar date after dt, by the rules of the Gregorian calendar for the
\* non-leap years 2025 and 2026
DayAfter(dt) ==
    LET len == IF dt.month = 2 THEN 28
               ELSE IF dt.month \in {4, 6, 9, 11} THEN 30 ELSE 31
    IN  IF dt.day < len THEN [dt EXCEPT !.day = dt.day + 1]
        ELSE IF dt.month < 12 THEN [dt EXCEPT !.month = dt.month + 1, !.day = 1]
        ELSE [dt EXCEPT !.year = dt.year + 1, !.month = 1, !.day = 1]

\* ds is a gap-free run of consecutive calendar dates
IsRunOfDays(ds) == \A i \in 1..(Len(ds) - 1) : ds[i + 1] = DayAfter(ds[i])

\* month m, day d names a day of the calendar of a non-leap year
IsCalendarDay(m, d) ==
    \/ m \in {1, 3, 5, 7, 8, 10, 12} /\ d \in 1..31
    \/ m \in {4, 6, 9, 11} /\ d \in 1..30
    \/ m = 2 /\ d \in 1..28

\* the number of the day m/d within a non-leap year
DayOfYear(m, d) ==
    <<0, 31, 59, 90, 120, 151, 181, 212, 243, 273, 304, 334>>[m] + d

\* the label MMDD-MMDD written digit by digit
LabelOf(sm, sd, em, ed) ==
    <<DigitChars[(sm \div 10) + 1], DigitChars[(sm % 10) + 1],
      DigitChars[(sd \div 10) + 1], DigitChars[(sd % 10) + 1],
      "-",
      DigitChars[(em \div 10) + 1], DigitChars[(em % 10) + 1],
      DigitChars[(ed \div 10) + 1], DigitChars[(ed % 10) + 1]>>

HeaderReturned == fn = "_parse_week_header" /\ ret # Pending

\* start and end month/day as the claim reads them off the integers of the line
ArgStartMonth == arg.nums[1]
ArgStartDay == arg.nums[2]
ArgEndMonth == IF Len(arg.nums) >= 4 THEN arg.nums[3] ELSE arg.nums[1]
ArgEndDay == IF Len(arg.nums) >= 4 THEN arg.nums[4] ELSE arg.nums[3]

\* C7: whenever _parse_week_header returns a result, the date list is a
\* non-empty gap-free run of consecutive dates whose first element is the start
\* month/day in the default year and whose last element is the parsed end
\* month/day.
C7_DateListIsInclusiveRun ==
    (HeaderReturned /\ ret.kind = "ok") =>
        /\ Len(ret.days) >= 1
        /\ ret.days[1] = Date(2025, ArgStartMonth, ArgStartDay)
        /\ ret.days[Len(ret.days)].month = ArgEndMonth
        /\ ret.days[Len(ret.days)].day = ArgEndDay
        /\ IsRunOfDays(ret.days)

\* C8: for a header whose end month is less than its start month the end date
\* lies in the year after the default year, the dates are every consecutive
\* date from the start (2025) through that end date, and the label is built from
\* the start month/day and the literal end month/day; "Tue12/30-Mon1/05" gives
\* "1230-0105" and 7 dates.
C8_YearRollover ==
    /\ (/\ HeaderReturned
        /\ Len(arg.nums) >= 4
        /\ IsCalendarDay(ArgStartMonth, ArgStartDay)
        /\ IsCalendarDay(ArgEndMonth, ArgEndDay)
        /\ ArgEndMonth < ArgStartMonth)
       => /\ ret.kind = "ok"
          /\ Len(ret.days) >= 1
          /\ ret.days[1] = Date(2025, ArgStartMonth, ArgStartDay)
          /\ ret.days[Len(ret.days)] = Date(2026, ArgEndMonth, ArgEndDay)
          /\ IsRunOfDays(ret.days)
          /\ ret.label = LabelOf(ArgStartMonth, ArgStartDay, ArgEndMonth, ArgEndDay)
    /\ (/\ HeaderReturned
        /\ HeaderText(arg) = <<"T", "u", "e", "1", "2", "/", "3", "0", "-",
                               "M", "o", "n", "1", "/", "0", "5">>)
       => /\ ret.kind = "ok"
          /\ ret.label = <<"1", "2", "3", "0", "-", "0", "1", "0", "5">>
          /\ Len(ret.days) = 7

C8_Witness ==
    /\ HeaderReturned
    /\ HeaderText(arg) = <<"T", "u", "e", "1", "2", "/", "3", "0", "-",
                           "M", "o", "n", "1", "/", "0", "5">>
    /\ ret.kind = "ok"
    /\ ret.days[7] = Date(2026, 1, 5)

\* C9: fewer than three integers give null; otherwise the first two integers
\* are the start month/day, the end month/day are the third and fourth integer
\* (four or more integers) or the start month and the third integer (exactly
\* three); when the start date is not after the end date within 2025 the result
\* is the (end - start + 1) dates from start to end and the zero-padded label
\* MMDD-MMDD; "Fri4/25-Wed4/30" gives "0425-0430" and 6 dates.
C9_SameYearRange ==
    /\ (HeaderReturned /\ Len(arg.nums) < 3) => ret = None
    /\ (/\ HeaderReturned
        /\ Len(arg.nums) >= 3
        /\ IsCalendarDay(ArgStartMonth, ArgStartDay)
        /\ IsCalendarDay(ArgEndMonth, ArgEndDay)
        /\ DayOfYear(ArgStartMonth, ArgStartDay) <= DayOfYear(ArgEndMonth, ArgEndDay))
       => /\ ret.kind = "ok"
          /\ Len(ret.days) = DayOfYear(ArgEndMonth, ArgEndDay)
                                - DayOfYear(ArgStartMonth, ArgStartDay) + 1
          /\ ret.days[1] = Date(2025, ArgStartMonth, ArgStartDay)
          /\ ret.days[Len(ret.days)] = Date(2025, ArgEndMonth, ArgEndDay)
          /\ IsRunOfDays(ret.days)
          /\ ret.label = LabelOf(ArgStartMonth, ArgStartDay, ArgEndMonth, ArgEndDay)
    /\ (/\ HeaderReturned
        /\ HeaderText(arg) = <<"F", "r", "i", "4", "/", "2", "5", "-",
                               "W", "e", "d", "4", "/", "3", "0">>)
       => /\ ret.kind = "ok"
          /\ ret.label = <<"0", "4", "2", "5", "-", "0", "4", "3", "0">>
          /\ Len(ret.days) = 6

C9_Witness ==
    /\ HeaderReturned
    /\ arg.nums = <<4, 25, 30>>
    /\ ret.kind = "ok"
    /\ Len(ret.days) = 6
    /\ ret.days[6] = Date(2025, 4, 30)

-----------------------------------------------------------------------------
(* Direct calls of _parse_time: the tokens it is called with *)

\* the hour part, written with one digit below ten unless a.hpad
TimeHours == 0..13 \cup {23, 24, 25, 99}

\* the minute part; -1 when the token has no ":MM"
TimeMinutes == {-1, 0, 5, 15, 30, 59, 60, 99}

TimeMeridiems ==
    {<<>>, <<"a", "m">>, <<"p", "m">>, <<"A", "M">>, <<"P", "M">>, <<"P", "m">>}

\* tokens that are not of the shape H[:MM][am|pm]
TimeOddTokens ==
    {<<".">>, <<>>, <<"x">>, <<"7", ":", "5">>, <<"1", "2", "3">>,
     <<"7", ":", "3", "0", ":", "1", "5">>, <<"7", "a">>,
     <<" ", "7", "a", "m">>, <<"a", "m">>}

TimeArgs ==
    [h : TimeHours, hpad : BOOLEAN, mm : TimeMinutes, mer : TimeMeridiems,
     odd : {<<>>}]
        \cup [h : {-1}, hpad : {FALSE}, mm : {-1}, mer : {<<>>}, odd : TimeOddTokens]

\* the text of the token, such as "12:05am"
TimeText(a) ==
    IF a.h < 0 THEN a.odd
    ELSE (IF a.hpad THEN Format02d(a.h) ELSE IntToStr(a.h))
            \o (IF a.mm < 0 THEN <<>> ELSE <<":">> \o Format02d(a.mm))
            \o a.mer

InitParseTime ==
    /\ fn = "_parse_time"
    /\ arg \in TimeArgs
    /\ ret = Pending
    /\ pc = "done"
    /\ nread = 0
    /\ line = <<>>
    /\ records = <<>>
    /\ week_label = None
    /\ week_days = <<>>
    /\ week_data = <<>>
    /\ result = "running"

CallParseTime ==
    /\ fn = "_parse_time"
    /\ ret = Pending
    /\ \E fallback \in PandasOutcomes : ret' = _parse_time(TimeText(arg), fallback)
    /\ UNCHANGED <<pc, nread, line, records, week_label, week_days, week_data,
                   result, fn, arg>>

NextParseTime == CallParseTime

SpecParseTime == InitParseTime /\ [][NextParseTime]_vars

-----------------------------------------------------------------------------
(* Properties of _parse_time, checked under SpecParseTime *)

TimeReturned == fn = "_parse_time" /\ ret # Pending

ArgIsAm == arg.mer \in {<<"a", "m">>, <<"A", "M">>}
ArgIsPm == arg.mer \in {<<"p", "m">>, <<"P", "M">>, <<"P", "m">>}
ArgMinute == IF arg.mm < 0 THEN 0 ELSE arg.mm

\* C10: for a token H[:MM] with meridiem, H in 1..12 and MM in 00..59, the
\* result is hour (H mod 12) for am and (H mod 12) + 12 for pm with minute MM,
\* whatever the case of the meridiem ("12:05am" is 00:05, "12:00pm" is 12:00);
\* for a token without meridiem it is hour (H mod 24) and minute MM, 0 when
\* the minute is omitted.
C10_ClockTimeValue ==
    (TimeReturned /\ arg.h >= 0 /\ ArgMinute \in 0..59) =>
        /\ (arg.h \in 1..12 /\ ArgIsAm) => ret = Time(arg.h % 12, ArgMinute)
        /\ (arg.h \in 1..12 /\ ArgIsPm) => ret = Time((arg.h % 12) + 12, ArgMinute)
        /\ arg.mer = <<>> => ret = Time(arg.h % 24, ArgMinute)
        /\ TimeText(arg) = <<"1", "2", ":", "0", "5", "a", "m">> => ret = Time(0, 5)
        /\ TimeText(arg) = <<"1", "2", ":", "0", "0", "p", "m">> => ret = Time(12, 0)

C10_Witness ==
    /\ TimeReturned
    /\ TimeText(arg) = <<"1", "2", ":", "0", "0", "P", "m">>
    /\ ret = Time(12, 0)

-----------------------------------------------------------------------------
(* Direct calls of _parse_duration *)

\* tokens that are not of the shape H[:MM][am|pm], each with the value it
\* stands for (exp): a plain number, or nothing
DurationOddTokens ==
    {[text |-> <<".">>, exp |-> None],
     [text |-> <<>>, exp |-> None],
     [text |-> <<"x">>, exp |-> None],
     [text |-> <<"1", ".", "5">>, exp |-> Float(3, 2)],
     [text |-> <<"-", "1">>, exp |-> Float(-1, 1)],
     [text |-> <<".", "2", "5">>, exp |-> Float(1, 4)],
     [text |-> <<"1", "2", "3">>, exp |-> Float(123, 1)],
     [text |-> <<" ", "8", " ">>, exp |-> Float(8, 1)],
     [text |-> <<"1", ":", "2", ":", "3">>, exp |-> None],
     [text |-> <<":", "5">>, exp |-> None],
     [text |-> <<"5", ":">>, exp |-> None],
     [text |-> <<"7", "a">>, exp |-> None],
     [text |-> <<"a", "m">>, exp |-> None],
     [text |-> <<"1", ":", "²">>, exp |-> None],
     [text |-> <<"²">>, exp |-> None]}

DurationArgs ==
    [h : TimeHours, hpad : BOOLEAN, mm : TimeMinutes, mer : TimeMeridiems,
     odd : {<<>>}, exp : {None}]
        \cup [h : {-1}, hpad : {FALSE}, mm : {-1}, mer : {<<>>},
              odd : {d.text : d \in DurationOddTokens},
              exp : {d.exp : d \in DurationOddTokens}]

InitParseDuration ==
    /\ fn = "_parse_duration"
    /\ arg \in DurationArgs
    /\ arg.h < 0 => \E d \in DurationOddTokens : d.text = arg.odd /\ d.exp = arg.exp
    /\ ret = Pending
    /\ pc = "done"
    /\ nread = 0
    /\ line = <<>>
    /\ records = <<>>
    /\ week_label = None
    /\ week_days = <<>>
    /\ week_data = <<>>
    /\ result = "running"

CallParseDuration ==
    /\ fn = "_parse_duration"
    /\ ret = Pending
    /\ ret' = _parse_duration(TimeText(arg))
    /\ UNCHANGED <<pc, nread, line, records, week_label, week_days, week_data,
                   result, fn, arg>>

\* _parse_time called with the same token
CallParseTimeOfDuration ==
    /\ fn = "_parse_duration"
    /\ ret = Pending
    /\ fn' = "_parse_time"
    /\ \E fallback \in PandasOutcomes : ret' = _parse_time(TimeText(arg), fallback)
    /\ UNCHANGED <<pc, nread, line, records, week_label, week_days, week_data,
                   result, arg>>

NextParseDuration == CallParseDuration \/ CallParseTimeOfDuration

SpecParseDuration == InitParseDuration /\ [][NextParseDuration]_vars

-----------------------------------------------------------------------------
(* Properties of _parse_duration and _parse_time, checked under            *)
(* SpecParseDuration                                                        *)

DurationReturned == fn = "_parse_duration" /\ ret # Pending

\* the hours h + m/60
Hours(h, m) == Fraction(h * 60 + m, 60)

\* the token has a meridiem and _parse_time gives a time for it
ArgIsClockTime ==
    arg.h >= 0 /\ arg.mer # <<>> /\ _parse_time(TimeText(arg), None) # None

\* C11: _parse_duration gives, in hours, the time of day of _parse_time for a
\* token with meridiem that _parse_time accepts ("9:15pm" is 21.25, "12:05am"
\* is 5/60), else H + MM/60 for H:MM with both parts digits ("7:30" is 7.5),
\* else the plain number ("8" is 8.0), else None.
C11_DurationValue ==
    DurationReturned =>
        /\ ArgIsClockTime =>
               LET t == _parse_time(TimeText(arg), None)
               IN  ret = Hours(t.hour, t.minute)
        /\ (arg.h >= 0 /\ arg.mer # <<>> /\ ~ArgIsClockTime) => ret = None
        /\ (arg.h >= 0 /\ arg.mer = <<>> /\ arg.mm >= 0) => ret = Hours(arg.h, arg.mm)
        /\ (arg.h >= 0 /\ arg.mer = <<>> /\ arg.mm < 0) => ret = Float(arg.h, 1)
        /\ arg.h < 0 => ret = arg.exp
        /\ TimeText(arg) = <<"9", ":", "1", "5", "p", "m">> => ret = Float(85, 4)
        /\ TimeText(arg) = <<"1", "2", ":", "0", "5", "a", "m">> => ret = Float(1, 12)
        /\ TimeText(arg) = <<"7", ":", "3", "0">> => ret = Float(15, 2)
        /\ TimeText(arg) = <<"8">> => ret = Float(8, 1)

\* C12: _parse_time and _parse_duration never raise; "." and the empty token
\* give None, a token of the strict pattern with minute 60..99 gives None from
\* _parse_time, and a time returned has hour 0..23 and minute 0..59.
C12_ParsersAreTotal ==
    ret # Pending =>
        /\ ret # Raised
        /\ TimeText(arg) \in {<<".">>, <<>>} => ret = None
        /\ (fn = "_parse_time" /\ arg.h >= 0 /\ arg.mm >= 60) => ret = None
        /\ (fn = "_parse_time" /\ ret # None) =>
               ret.hour \in 0..23 /\ ret.minute \in 0..59

-----------------------------------------------------------------------------
(* Configuration tables (log_parser.py:10-55) *)

\* QUESTION_TO_COLUMN as a list of <<question, column>> pairs
QUESTION_TO_COLUMN ==
    <<<<<<"1", "b", ".", " ", "W", "h", "a", "t", " ", "t", "i", "m", "e", " ",
        "s", "t", "a", "r", "t", " ", "w", "i", "n", "d", "i", "n", "g", " ",
        "d", "o", "w", "n", "?">>,
        "wind_down_start_time">>,
      <<<<"1", ".", "2", "b", ".", " ", "W", "h", "a", "t", " ", "t", "i", "m",
        "e", " ", "d", "i", "d", " ", "y", "o", "u", " ", "g", "e", "t", " ",
        "i", "n", "t", "o", " ", "b", "e", "d", " ", "&", " ", "c", "o", "m",
        "m", "i", "t", " ", "t", "o", " ", "s", "l", "e", "e", "p", "?">>,
        "bed_time">>,
      <<<<"2", ".", " ", "H", "o", "w", " ", "l", "o", "n", "g", " ", "d", "o",
        " ", "y", "o", "u", " ", "e", "s", "t", "i", "m", "a", "t", "e", " ",
        "i", "t", " ", "t", "o", "o", "k", " ", "t", "o", " ", "f", "a", "l",
        "l", " ", "a", "s", "l", "e", "e", "p", " ", "(", "m", "i", "n", "u",
        "t", "e", "s", ")", "?">>,
        "fall_asleep_minutes">>,
      <<<<"3", ".", " ", "H", "o", "w", " ", "m", "a", "n", "y", " ", "t", "i",
        "m", "e", "s", " ", "d", "i", "d", " ", "y", "o", "u", " ", "w", "a",
        "k", "e", " ", "u", "p", " ", "d", "u", "r", "i", "n", "g", " ", "t",
        "h", "e", " ", "n", "i", "g", "h", "t", "?">>,
        "night_wake_ups">>,
      <<<<"4", ".", " ", "I", "n", " ", "t", "o", "t", "a", "l", ",", " ", "h",
        "o", "w", " ", "l", "o", "n", "g", " ", "d", "i", "d", " ", "t", "h",
        "e", "s", "e", " ", "a", "w", "a", "k", "e", "n", "i", "n", "g", "s",
        " ", "l", "a", "s", "t", " ", "(", "m", "i", "n", "u", "t", "e", "s",
        ")", "?">>,
        "awake_minutes">>,
      <<<<"5", ".", " ", "W", "h", "e", "n", " ", "a", "w", "a", "k", "e", " ",
        "d", "u", "r", "i", "n", "g", " ", "t", "h", "e", " ", "n", "i", "g",
        "h", "t", ",", " ", "h", "o", "w", " ", "l", "o", "n", "g", " ", "d",
        "i", "d", " ", "y", "o", "u", " ", "s", "p", "e", "n", "d", " ", "o",
        "u", "t", " ", "o", "f", " ", "b", "e", "d", " ", "(", "m", "i", "n",
        "u", "t", "e", "s", ")", "?">>,
        "out_of_bed_minutes">>,
      <<<<"6", ".", " ", "W", "h", "a", "t", " ", "t", "i", "m", "e", " ", "d",
        "i", "d", " ", "y", "o", "u", " ", "w", "a", "k", "e", " ", "u", "p",
        "?">>,
        "wake_up_time">>,
      <<<<"7", ".", " ", "W", "h", "a", "t", " ", "t", "i", "m", "e", " ", "d",
        "i", "d", " ", "y", "o", "u", " ", "g", "e", "t", " ", "o", "u", "t",
        " ", "o", "f", " ", "b", "e", "d", "?">>,
        "get_out_of_bed_time">>,
      <<<<"8", ".", " ", "I", "n", " ", "T", "O", "T", "A", "L", ",", " ", "h",
        "o", "w", " ", "m", "a", "n", "y", " ", "h", "o", "u", "r", "s", " ",
        "o", "f", " ", "s", "l", "e", "e", "p", " ", "d", "i", "d", " ", "y",
        "o", "u", " ", "g", "e", "t", "?">>,
        "sleep_hours">>,
      <<<<"9", ".", " ", "I", "n", " ", "T", "O", "T", "A", "L", ",", " ", "h",
        "o", "w", " ", "m", "a", "n", "y", " ", "h", "o", "u", "r", "s", " ",
        "d", "i", "d", " ", "y", "o", "u", " ", "s", "p", "e", "n", "d", " ",
        "i", "n", " ", "b", "e", "d", "?">>,
        "bed_hours">>,
      <<<<"1", "0", ".", " ", "Q", "u", "a", "l", "i", "t", "y", " ", "o", "f",
        " ", "y", "o", "u", "r", " ", "s", "l", "e", "e", "p", " ", "(", "1",
        "-", "1", "0", ")", "?">>,
        "sleep_quality">>,
      <<<<"1", "1", ".", " ", "D", "i", "d", " ", "y", "o", "u", " ", "t", "a",
        "k", "e", " ", "n", "a", "p", "s", " ", "d", "u", "r", "i", "n", "g",
        " ", "t", "h", "e", " ", "d", "a", "y", "?">>,
        "naps">>,
      <<<<"1", "2", ".", " ", "M", "o", "o", "d", " ", "d", "u", "r", "i", "n",
        "g", " ", "t", "h", "e", " ", "d", "a", "y", " ", "(", "1", "-", "1",
        "0", ")", "?">>,
        "mood">>,
      <<<<"1", "3", ".", " ", "F", "a", "t", "i", "g", "u", "e", " ", "l", "e",
        "v", "e", "l", " ", "d", "u", "r", "i", "n", "g", " ", "t", "h", "e",
        " ", "d", "a", "y", " ", "(", "1", "-", "1", "0", ")", "?">>,
        "fatigue">>,
      <<<<"1", "4", ".", " ", "I", "f", " ", "a", "l", "c", "o", "h", "o", "l",
        ",", " ", "h", "o", "w", " ", "m", "a", "n", "y", " ", "s", "t", "a",
        "n", "d", "a", "r", "d", " ", "d", "r", "i", "n", "k", "s", "?">>,
        "alcohol_drinks">>,
      <<<<"1", "5", ".", " ", "-", " ", "w", "h", "a", "t", " ", "t", "y", "p",
        "e", "?">>,
        "alcohol_type">>,
      <<<<"1", "6", ".", " ", "-", " ", "w", "h", "a", "t", " ", "t", "i", "m",
        "e", "?">>,
        "alcohol_time">>,
      <<<<"1", "7", ".", " ", "S", "e", "c", "o", "n", "d", " ", "w", "i", "n",
        "d", "?">>,
        "second_wind">>>>


TIME_COLS == {"wind_down_start_time", "bed_time", "wake_up_time", "get_out_of_bed_time"}

NUMERIC_COLS ==
    {"fall_asleep_minutes", "night_wake_ups", "awake_minutes", "out_of_bed_minutes",
     "sleep_hours", "bed_hours", "sleep_quality", "naps", "mood", "fatigue",
     "alcohol_drinks"}

STRING_COLS == {"alcohol_type", "alcohol_time", "second_wind"}

\* what QUESTION_TO_COLUMN.get(question) gives for a question that is no key
NoColumn == "None"

\* QUESTION_TO_COLUMN.get(question)
QuestionColumn(question) ==
    IF \E i \in 1..Len(QUESTION_TO_COLUMN) : QUESTION_TO_COLUMN[i][1] = question
    THEN QUESTION_TO_COLUMN[CHOOSE i \in 1..Len(QUESTION_TO_COLUMN) :
                                QUESTION_TO_COLUMN[i][1] = question][2]
    ELSE NoColumn

-----------------------------------------------------------------------------
(* parse_log: the shape of a line (log_parser.py:316-326, 343-348) *)

\* line.replace('\t', '    ')
RECURSIVE ExpandTabs(_)
ExpandTabs(s) ==
    IF s = <<>> THEN <<>>
    ELSE (IF Head(s) = "\t" THEN <<" ", " ", " ", " ">> ELSE <<Head(s)>>)
            \o ExpandTabs(Tail(s))

RECURSIVE LeadingSpaces(_)
LeadingSpaces(s) ==
    IF s # <<>> /\ Head(s) = " " THEN 1 + LeadingSpaces(Tail(s)) ELSE 0

\* indent = len(expanded) - len(expanded.lstrip(' '))
Indent(l) == LeadingSpaces(ExpandTabs(l))

\* the least indentation of a question line (line 343)
MinIndent == 4

\* s.startswith(p)
StartsWith(s, p) == Len(s) >= Len(p) /\ SubSeq(s, 1, Len(p)) = p

\* not line.strip() or line.strip().startswith('...')
IsSkipped(l) ==
    LET stripped == Strip(l)
    IN  stripped = <<>> \/ StartsWith(stripped, <<".", ".", ".">>)

AlphaAt(s, p) == p <= Len(s) /\ IsAlpha(s[p])

DigitAt(s, p) == p <= Len(s) /\ IsDigit(s[p])

\* The regular expression _WEEK_HEADER_RE is matched by sets of positions: each
\* operator maps the set P of positions a match may have reached to the set of
\* positions it may reach after one more element of the pattern.

\* (?:[A-Za-z]{3})?
ReOptAlpha3(s, P) ==
    P \cup {p + 3 : p \in {q \in P : AlphaAt(s, q) /\ AlphaAt(s, q + 1)
                                                   /\ AlphaAt(s, q + 2)}}

\* \d{1,2}
ReDigits12(s, P) ==
    {p + 1 : p \in {q \in P : DigitAt(s, q)}}
        \cup {p + 2 : p \in {q \in P : DigitAt(s, q) /\ DigitAt(s, q + 1)}}

\* a literal character
ReChar(s, P, c) == {p + 1 : p \in {q \in P : q <= Len(s) /\ s[q] = c}}

\* (?:\d{1,2}/)?
ReOptMonth(s, P) == P \cup ReChar(s, ReDigits12(s, P), "/")

\* _WEEK_HEADER_RE.match(s):
\* ^(?:[A-Za-z]{3})?\d{1,2}/\d{1,2}-(?:[A-Za-z]{3})?(?:\d{1,2}/)?\d{1,2}$
WeekHeaderReMatch(s) ==
    LET start == ReChar(s, ReDigits12(s, ReChar(s, ReDigits12(s,
                     ReOptAlpha3(s, {1})), "/")), "-")
    IN  (Len(s) + 1) \in ReDigits12(s, ReOptMonth(s, ReOptAlpha3(s, start)))

\* the first branch of the loop body (line 326)
IsWeekHeaderLine(l) == ~IsSkipped(l) /\ WeekHeaderReMatch(Strip(l))

\* '?' in stripped
HasQuestionMark(l) == IndexOf(Strip(l), "?") > 0

\* s.split(): the maximal runs of non-whitespace characters
RECURSIVE SplitWhitespace(_)
SplitWhitespace(s) ==
    LET t == LStrip(s)
        n == CHOOSE k \in 0..Len(t) :
                 /\ \A i \in 1..k : ~IsSpace(t[i])
                 /\ k = Len(t) \/ IsSpace(t[k + 1])
    IN  IF t = <<>> THEN <<>>
        ELSE <<SubSeq(t, 1, n)>> \o SplitWhitespace(SubSeq(t, n + 1, Len(t)))

\* question = (q_part + '?').strip() after stripped.split('?', 1)
QuestionOf(l) ==
    LET stripped == Strip(l)
    IN  Strip(SubSeq(stripped, 1, IndexOf(stripped, "?")))

\* values = values_part.strip().split()
ValuesOf(l) ==
    LET stripped == Strip(l)
    IN  SplitWhitespace(Strip(SubSeq(stripped, IndexOf(stripped, "?") + 1,
                                     Len(stripped))))

-----------------------------------------------------------------------------
(* parse_log: values, records and the duplicate check *)

\* bool(week_label)
Truthy(label) == label # None /\ label.chars # <<>>

\* a loop that records the '.' of the drink count as None, as it does for the
\* other columns
ParseValue_DotIsNone(col, v, fallback) ==
    IF col \in TIME_COLS THEN _parse_time(v, fallback)
    ELSE IF col \in STRING_COLS THEN (IF v = <<".">> THEN None ELSE Text(v))
    ELSE IF col = "alcohol_drinks"
         THEN IF v # <<".">>
              THEN (IF ParseFloat(v) = None THEN Raised ELSE ParseFloat(v))
              ELSE None
    ELSE LET val == _parse_duration(v)
         IN  IF val = None THEN ParseFloat(v) ELSE val

\* one pass of the loop of lines 353-367; Raised where float(v) raises for the
\* drink count
ParseValue(col, v, fallback) ==
    IF col \in TIME_COLS THEN _parse_time(v, fallback)
    ELSE IF col \in STRING_COLS THEN (IF v = <<".">> THEN None ELSE Text(v))
    ELSE IF col = "alcohol_drinks"
         THEN IF v # <<".">>
              THEN (IF ParseFloat(v) = None THEN Raised ELSE ParseFloat(v))
              ELSE Float(0, 1)
    ELSE LET val == _parse_duration(v)
         IN  IF val = None THEN ParseFloat(v) ELSE val

\* parsed_vals
ParsedVals(col, values, fallback) ==
    [k \in 1..Len(values) |-> ParseValue(col, values[k], fallback)]

\* week_data[col] = parsed_vals under "if col"
SetDefault_Overwrite(data, col, parsed_vals) ==
    IF col = NoColumn THEN data
    ELSE (col :> parsed_vals) @@ data

\* week_data.setdefault(col, parsed_vals) under "if col"
SetDefault(data, col, parsed_vals) ==
    IF col = NoColumn \/ col \in DOMAIN data THEN data
    ELSE data @@ (col :> parsed_vals)

\* a dictionary with every column of the week, None where the list is short
FlushRecord_FillNone(i, label, days, data) ==
    ("date" :> days[i]) @@ ("week_label" :> label)
        @@ [q \in DOMAIN data |-> IF i <= Len(data[q]) THEN data[q][i] ELSE None]

\* the dictionary built for day number i of the week (lines 330-333)
FlushRecord(i, label, days, data) ==
    ("date" :> days[i]) @@ ("week_label" :> label)
        @@ [q \in {c \in DOMAIN data : i <= Len(data[c])} |-> data[q][i]]

\* a flush that puts the records of the active week in front of the others
Flush_NewestFirst(recs, label, days, data) ==
    IF Truthy(label) /\ days # <<>>
    THEN [i \in 1..Len(days) |-> FlushRecord(i, label, days, data)] \o recs
    ELSE recs

\* records after the flush of the active week (lines 327-334, 374-381)
Flush(recs, label, days, data) ==
    IF Truthy(label) /\ days # <<>>
    THEN recs \o [i \in 1..Len(days) |-> FlushRecord(i, label, days, data)]
    ELSE recs

\* dup_set of lines 387-393
RECURSIVE DuplicateDatesFrom(_, _, _, _)
DuplicateDatesFrom(recs, k, seen, dup_set) ==
    IF k > Len(recs) THEN dup_set
    ELSE LET d == recs[k]["date"]
         IN  IF d \in seen THEN DuplicateDatesFrom(recs, k + 1, seen, dup_set \cup {d})
             ELSE DuplicateDatesFrom(recs, k + 1, seen \cup {d}, dup_set)

\* a check that compares each record with the one before it only
DuplicateDates_AdjacentOnly(recs) ==
    {recs[k]["date"] : k \in {n \in 2..Len(recs) : recs[n]["date"] = recs[n - 1]["date"]}}

DuplicateDates(recs) == DuplicateDatesFrom(recs, 1, {}, {})

-----------------------------------------------------------------------------
(* parse_log: the lines a log is made of *)

\* an answer the strict time pattern rejects: its value is what pandas gives
Fallback == [kind |-> "fallback"]

\* Each line is described by its indentation (pre), its text (body: a header, a
\* question up to the '?', a note), the answer tokens that follow (toks) with
\* the whitespace in front of each (gap), the column the question stands for
\* (col) and the values the answers stand for in that column (vals).
LogInputs ==
    {[pre |-> <<>>,
      body |-> <<"1", "/", "1", "-", "1", "/", "3">>,
      toks |-> <<>>, gap |-> <<" ">>,
      col |-> NoColumn,
      vals |-> <<>>],
     [pre |-> <<" ", " ", " ", " ">>,
      body |-> <<"T", "h", "u", "1", "/", "2", "-", "F", "r", "i", "3">>,
      toks |-> <<>>, gap |-> <<" ">>,
      col |-> NoColumn,
      vals |-> <<>>],
     [pre |-> <<"\t", "\t">>,
      body |-> <<"1", "/", "5", "-", "1", "/", "4">>,
      toks |-> <<>>, gap |-> <<" ">>,
      col |-> NoColumn,
      vals |-> <<>>],
     [pre |-> <<>>,
      body |-> <<"1", "3", "/", "1", "-", "1", "3", "/", "2">>,
      toks |-> <<>>, gap |-> <<" ">>,
      col |-> NoColumn,
      vals |-> <<>>],
     [pre |-> <<" ", " ">>,
      body |-> <<"1", "2", "/", "3", "1", "-", "1", "/", "0", "1">>,
      toks |-> <<>>, gap |-> <<" ">>,
      col |-> NoColumn,
      vals |-> <<>>],
     [pre |-> <<" ", " ", " ", " ">>,
      body |-> <<"6", ".", " ", "W", "h", "a", "t", " ", "t", "i", "m", "e",
               " ", "d", "i", "d", " ", "y", "o", "u", " ", "w", "a", "k", "e",
               " ", "u", "p", "?">>,
      toks |-> <<<<"7", "a", "m">>, <<"x">>, <<".">>>>, gap |-> <<" ">>,
      col |-> "wake_up_time",
      vals |-> <<Time(7, 0), Fallback, None>>],
     [pre |-> <<"\t">>,
      body |-> <<"6", ".", " ", "W", "h", "a", "t", " ", "t", "i", "m", "e",
               " ", "d", "i", "d", " ", "y", "o", "u", " ", "w", "a", "k", "e",
               " ", "u", "p", "?">>,
      toks |-> <<<<"8", ":", "3", "0", "a", "m">>, <<"9">>, <<"1", "0", "P", "M">>>>, gap |-> <<" ", " ">>,
      col |-> "wake_up_time",
      vals |-> <<Time(8, 30), Time(9, 0), Time(22, 0)>>],
     [pre |-> <<" ", " ", " ", " ">>,
      body |-> <<"1", "4", ".", " ", "I", "f", " ", "a", "l", "c", "o", "h",
               "o", "l", ",", " ", "h", "o", "w", " ", "m", "a", "n", "y", " ",
               "s", "t", "a", "n", "d", "a", "r", "d", " ", "d", "r", "i", "n",
               "k", "s", "?">>,
      toks |-> <<<<"1">>, <<".">>>>, gap |-> <<" ">>,
      col |-> "alcohol_drinks",
      vals |-> <<Float(1, 1), Float(0, 1)>>],
     [pre |-> <<" ", " ", " ", " ">>,
      body |-> <<"1", "4", ".", " ", "I", "f", " ", "a", "l", "c", "o", "h",
               "o", "l", ",", " ", "h", "o", "w", " ", "m", "a", "n", "y", " ",
               "s", "t", "a", "n", "d", "a", "r", "d", " ", "d", "r", "i", "n",
               "k", "s", "?">>,
      toks |-> <<<<"t", "w", "o">>>>, gap |-> <<" ">>,
      col |-> "alcohol_drinks",
      vals |-> <<Raised>>],
     [pre |-> <<" ", " ", " ", " ", " ", " ", " ", " ">>,
      body |-> <<"1", "2", ".", " ", "M", "o", "o", "d", " ", "d", "u", "r",
               "i", "n", "g", " ", "t", "h", "e", " ", "d", "a", "y", " ", "(",
               "1", "-", "1", "0", ")", "?">>,
      toks |-> <<<<"7">>, <<"b", "a", "d">>, <<".">>>>, gap |-> <<" ">>,
      col |-> "mood",
      vals |-> <<Float(7, 1), None, None>>],
     [pre |-> <<" ", " ", " ", " ">>,
      body |-> <<"1", "7", ".", " ", "S", "e", "c", "o", "n", "d", " ", "w",
               "i", "n", "d", "?">>,
      toks |-> <<<<".">>, <<"y", "e", "s">>>>, gap |-> <<" ">>,
      col |-> "second_wind",
      vals |-> <<None, Text(<<"y", "e", "s">>)>>],
     [pre |-> <<" ", " ", " ", " ">>,
      body |-> <<"9", "9", ".", " ", "U", "n", "m", "a", "p", "p", "e", "d",
               "?">>,
      toks |-> <<<<"1">>, <<"2">>>>, gap |-> <<" ">>,
      col |-> NoColumn,
      vals |-> <<Float(1, 1), Float(2, 1)>>],
     [pre |-> <<" ", " ", " ", " ">>,
      body |-> <<"9", "9", ".", " ", "U", "n", "m", "a", "p", "p", "e", "d",
               "?">>,
      toks |-> <<<<"3">>, <<"1", ":", "²">>>>, gap |-> <<" ">>,
      col |-> NoColumn,
      vals |-> <<Float(3, 1), Raised>>],
     [pre |-> <<" ", " ">>,
      body |-> <<"6", ".", " ", "W", "h", "a", "t", " ", "t", "i", "m", "e",
               " ", "d", "i", "d", " ", "y", "o", "u", " ", "w", "a", "k", "e",
               " ", "u", "p", "?">>,
      toks |-> <<<<"5", "a", "m">>>>, gap |-> <<" ">>,
      col |-> "wake_up_time",
      vals |-> <<Time(5, 0)>>],
     [pre |-> <<" ", " ", " ", " ", " ", " ", " ", " ">>,
      body |-> <<"(", "c", "o", "m", "m", "e", "n", "t", ")">>,
      toks |-> <<>>, gap |-> <<" ">>,
      col |-> NoColumn,
      vals |-> <<>>],
     [pre |-> <<>>,
      body |-> <<"n", "o", "t", "e">>,
      toks |-> <<>>, gap |-> <<" ">>,
      col |-> NoColumn,
      vals |-> <<>>],
     [pre |-> <<>>,
      body |-> <<>>,
      toks |-> <<>>, gap |-> <<" ">>,
      col |-> NoColumn,
      vals |-> <<>>],
     [pre |-> <<" ", " ", " ", " ">>,
      body |-> <<".", ".", ".">>,
      toks |-> <<>>, gap |-> <<" ">>,
      col |-> NoColumn,
      vals |-> <<>>]}

RECURSIVE JoinTokens(_, _)
JoinTokens(toks, gap) ==
    IF toks = <<>> THEN <<>> ELSE gap \o Head(toks) \o JoinTokens(Tail(toks), gap)

\* the text of the line, without its newline
LineText(d) == d.pre \o d.body \o JoinTokens(d.toks, d.gap)

LogLines == {LineText(d) : d \in LogInputs}

\* the number of lines a log has at most
MaxLines == 4

-----------------------------------------------------------------------------
(* parse_log (log_parser.py:300-399): one action per branch of the loop body, *)
(* then the final flush and the duplicate check                                *)

Init ==
    /\ pc = "loop"
    /\ nread = 0
    /\ line = <<>>
    /\ records = <<>>
    /\ week_label = None
    /\ week_days = <<>>
    /\ week_data = <<>>
    /\ result = "running"
    /\ fn = "parse_log"
    /\ arg = <<>>
    /\ ret = Pending

\* What the loop body computes from a line alone, tabulated over LogLines:
\* the skip test (lines 318-320), the header test (line 326), the indent
\* (lines 322-324), the '?' test (line 344), the parsed header (line 337),
\* the column (lines 345-349) and the parsed answers (lines 350-367).
LineSkipped == [l \in LogLines |-> IsSkipped(l)]

LineIsHeader == [l \in LogLines |-> IsWeekHeaderLine(l)]

LineIndent == [l \in LogLines |-> Indent(l)]

LineHasQuestion == [l \in LogLines |-> HasQuestionMark(l)]

LineHeader ==
    [l \in LogLines |->
        IF IsWeekHeaderLine(l) THEN _parse_week_header(Strip(l)) ELSE None]

LineColumn ==
    [l \in LogLines |->
        IF HasQuestionMark(l) THEN QuestionColumn(QuestionOf(l)) ELSE NoColumn]

LineParsedVals ==
    [l \in LogLines |->
        [fallback \in PandasOutcomes |->
            IF HasQuestionMark(l)
            THEN ParsedVals(QuestionColumn(QuestionOf(l)), ValuesOf(l), fallback)
            ELSE <<>>]]

\* the loop takes the next line l of the file
ReadLine(l) ==
    /\ pc = "loop"
    /\ nread < MaxLines
    /\ nread' = nread + 1
    /\ line' = l

\* lines 318-320: blank lines and divider rows
SkipLine ==
    \E l \in LogLines :
        /\ ReadLine(l)
        /\ LineSkipped[l]
        /\ UNCHANGED <<pc, records, week_label, week_days, week_data, result,
                       fn, arg, ret>>

\* lines 326-342: a week header flushes the active week and opens the next;
\* a ValueError of _parse_week_header leaves parse_log after the flush
WeekHeaderLine ==
    \E l \in LogLines :
        /\ ReadLine(l)
        /\ LineIsHeader[l]
        /\ records' = Flush(records, week_label, week_days, week_data)
        /\ week_data' = IF Truthy(week_label) /\ week_days # <<>> THEN <<>>
                        ELSE week_data
        /\ LET res == LineHeader[l]
           IN  IF res = Raised
               THEN /\ pc' = "done"
                    /\ result' = "error"
                    /\ ret' = Raised
                    /\ UNCHANGED <<week_label, week_days>>
               ELSE /\ week_label' = IF res = None THEN None ELSE Text(res.label)
                    /\ week_days' = IF res = None THEN <<>> ELSE res.days
                    /\ UNCHANGED <<pc, result, ret>>
        /\ UNCHANGED <<fn, arg>>

\* a question line taken as one whether or not a week is active
QuestionLine_NoWeekNeeded ==
    \E l \in LogLines, fallback \in PandasOutcomes :
        /\ ReadLine(l)
        /\ ~LineSkipped[l] /\ ~LineIsHeader[l]
        /\ LineIndent[l] >= MinIndent
        /\ LineHasQuestion[l]
        /\ LET col == LineColumn[l]
               parsed_vals == LineParsedVals[l][fallback]
           IN  IF \E k \in 1..Len(parsed_vals) : parsed_vals[k] = Raised
               THEN /\ pc' = "done"
                    /\ result' = "error"
                    /\ ret' = Raised
                    /\ UNCHANGED week_data
               ELSE /\ week_data' = SetDefault(week_data, col, parsed_vals)
                    /\ UNCHANGED <<pc, result, ret>>
        /\ UNCHANGED <<records, week_label, week_days, fn, arg>>

\* lines 343-369: a question line of the active week; a ValueError of float()
\* for the drink count leaves parse_log
QuestionLine ==
    \E l \in LogLines, fallback \in PandasOutcomes :
        /\ ReadLine(l)
        /\ ~LineSkipped[l] /\ ~LineIsHeader[l]
        /\ LineIndent[l] >= MinIndent /\ Truthy(week_label)
        /\ LineHasQuestion[l]
        /\ LET col == LineColumn[l]
               parsed_vals == LineParsedVals[l][fallback]
           IN  IF \E k \in 1..Len(parsed_vals) : parsed_vals[k] = Raised
               THEN /\ pc' = "done"
                    /\ result' = "error"
                    /\ ret' = Raised
                    /\ UNCHANGED week_data
               ELSE /\ week_data' = SetDefault(week_data, col, parsed_vals)
                    /\ UNCHANGED <<pc, result, ret>>
        /\ UNCHANGED <<records, week_label, week_days, fn, arg>>

\* lines 343-344: an indented line of the active week without '?'
NoteLine ==
    \E l \in LogLines :
        /\ ReadLine(l)
        /\ ~LineSkipped[l] /\ ~LineIsHeader[l]
        /\ LineIndent[l] >= MinIndent /\ Truthy(week_label)
        /\ ~LineHasQuestion[l]
        /\ UNCHANGED <<pc, records, week_label, week_days, week_data, result,
                       fn, arg, ret>>

\* every other line taken as the end of the active week
OtherLine_ClosesWeek ==
    \E l \in LogLines :
        /\ ReadLine(l)
        /\ ~LineSkipped[l] /\ ~LineIsHeader[l]
        /\ ~(LineIndent[l] >= MinIndent /\ Truthy(week_label))
        /\ records' = Flush(records, week_label, week_days, week_data)
        /\ week_label' = None
        /\ week_days' = <<>>
        /\ week_data' = <<>>
        /\ UNCHANGED <<pc, result, fn, arg, ret>>

\* lines 370-372: every other line
OtherLine ==
    \E l \in LogLines :
        /\ ReadLine(l)
        /\ ~LineSkipped[l] /\ ~LineIsHeader[l]
        /\ ~(LineIndent[l] >= MinIndent /\ Truthy(week_label))
        /\ UNCHANGED <<pc, records, week_label, week_days, week_data, result,
                       fn, arg, ret>>

\* lines 374-381: the end of the file flushes the last week
FinalFlush ==
    /\ pc = "loop"
    /\ pc' = "check"
    /\ records' = Flush(records, week_label, week_days, week_data)
    /\ UNCHANGED <<nread, line, week_label, week_days, week_data, result,
                   fn, arg, ret>>

\* lines 383-399: the duplicate check and the return
DuplicateCheck ==
    /\ pc = "check"
    /\ pc' = "done"
    /\ LET dup_set == IF Len(records) > 0 THEN DuplicateDates(records) ELSE {}
       IN  IF dup_set # {}
           THEN result' = "duplicate" /\ ret' = [kind |-> "ValueError", dates |-> dup_set]
           ELSE result' = "ok" /\ ret' = [kind |-> "DataFrame", rows |-> records]
    /\ UNCHANGED <<nread, line, records, week_label, week_days, week_data,
                   fn, arg>>

Next ==
    \/ SkipLine
    \/ WeekHeaderLine
    \/ QuestionLine
    \/ NoteLine
    \/ OtherLine
    \/ FinalFlush
    \/ DuplicateCheck

Spec == Init /\ [][Next]_vars

-----------------------------------------------------------------------------
(* parse_log: properties *)

\* two records of the list carry the same date
RepeatedDate(recs) ==
    \E i, j \in 1..Len(recs) : i # j /\ recs[i]["date"] = recs[j]["date"]

\* C1: parse_log ends with the duplicate-date error exactly when two of the
\* records it built carry the same calendar date, the error names the repeated
\* dates, and the records it returns have pairwise distinct dates.
C1_DuplicateErrorIffRepeatedDate ==
    (pc = "done" /\ result # "error") =>
        /\ (result = "duplicate") <=> RepeatedDate(records)
        /\ result = "duplicate" =>
               /\ ret.kind = "ValueError"
               /\ ret.dates = {records[i]["date"] : i \in
                                  {n \in 1..Len(records) :
                                      \E j \in 1..Len(records) :
                                          j # n /\ records[j]["date"] = records[n]["date"]}}
        /\ result = "ok" =>
               /\ ret.kind = "DataFrame"
               /\ ret.rows = records
               /\ ~RepeatedDate(ret.rows)

\* the duplicate-date error for a date that two different week blocks claim
C1_Witness ==
    /\ pc = "done"
    /\ result = "duplicate"
    /\ \E i, j \in 1..Len(records) :
           /\ records[i]["date"] = records[j]["date"]
           /\ records[i]["week_label"] # records[j]["week_label"]

\* C2: once a week-header line has been processed, the accumulated question
\* columns are empty.
C2_HeaderEmptiesAccumulator ==
    (pc = "loop" /\ nread > 0 /\ LineIsHeader[line]) => DOMAIN week_data = {}

\* the step closes the active week: a header line is read, or the input ends
ClosesWeek ==
    \/ nread' = nread + 1 /\ LineIsHeader[line']
    \/ pc = "loop" /\ pc' = "check"

\* the columns of a record other than its date and its label
QuestionColumnsOf(r) == DOMAIN r \ {"date", "week_label"}

\* C3: a step that closes the week appends exactly one record per date of the
\* day list, in order, each with that date and the week label; the record of
\* the i-th day (counted from 0) holds a column exactly when the column's list
\* has more than i entries, and then holds entry i.
C3_FlushEmitsOneRecordPerDay ==
    [][ClosesWeek =>
            /\ Len(records') = Len(records) + Len(week_days)
            /\ \A n \in 1..Len(records) : records'[n] = records[n]
            /\ \A i \in 1..Len(week_days) :
                   LET r == records'[Len(records) + i]
                   IN  /\ r["date"] = week_days[i]
                       /\ r["week_label"] = week_label
                       /\ QuestionColumnsOf(r)
                              = {c \in DOMAIN week_data : Len(week_data[c]) > i - 1}
                       /\ \A c \in QuestionColumnsOf(r) : r[c] = week_data[c][i]]_vars

\* a closed week with a ragged column: a record holds a column that another
\* record of the same week lacks
C3_Witness ==
    \E i, j \in 1..Len(records) :
        /\ records[i]["week_label"] = records[j]["week_label"]
        /\ QuestionColumnsOf(records[i]) # {}
        /\ QuestionColumnsOf(records[i]) # QuestionColumnsOf(records[j])

IsBlank(c) == c = " "

IsTab(c) == c = "\t"

\* the described line is a question line: indented by four columns or more,
\* a tab counting as four, and followed by answers
IsQuestionInput(d) ==
    /\ d.toks # <<>>
    /\ Len(SelectSeq(d.pre, IsBlank)) + 4 * Len(SelectSeq(d.pre, IsTab)) >= 4

\* the list holds the values the described answers stand for
HoldsAnswers(list, d) ==
    /\ Len(list) = Len(d.vals)
    /\ \A k \in 1..Len(d.vals) :
           IF d.vals[k] = Fallback THEN list[k] \in PandasOutcomes
           ELSE list[k] = d.vals[k]

\* the step reads the described question line while a week is active
ReadsQuestion(d) ==
    /\ nread' = nread + 1
    /\ line' = LineText(d)
    /\ IsQuestionInput(d)
    /\ Truthy(week_label)

C5_AnswerTokenNeverRaises ==
    ~(pc = "done" /\ result = "error" /\ LineHasQuestion[line])

\* C6: a line of week-header shape never makes parse_log raise.
C6_HeaderShapeNeverRaises ==
    ~(pc = "done" /\ result = "error" /\ LineIsHeader[line])

\* the columns of the question-to-column mapping
MappedColumns == {QUESTION_TO_COLUMN[q][2] : q \in DOMAIN QUESTION_TO_COLUMN}

\* C20: a question line whose key is not in the question-to-column mapping
\* is parsed without raising and leaves the accumulated columns of the active
\* week as they were, and every field of every emitted record other than date
\* and week_label is a column of the mapping.
C20_UnmappedQuestionIsDiscarded ==
    [][/\ \A d \in LogInputs :
              (ReadsQuestion(d) /\ d.col = NoColumn) =>
                  /\ result' # "error"
                  /\ DOMAIN week_data' = DOMAIN week_data
                  /\ \A c \in DOMAIN week_data : week_data'[c] = week_data[c]
       /\ \A i \in 1..Len(records') :
              DOMAIN records'[i] \subseteq {"date", "week_label"} \cup MappedColumns
      ]_vars

\* the step reads a line of week-header shape
ReadsHeader == nread' = nread + 1 /\ LineIsHeader[line']

\* the step reads the described question line, with a mapped key and answers
\* that parse, right after a week-header line
ReadsQuestionAfterHeader(d) ==
    /\ nread > 0
    /\ LineIsHeader[line]
    /\ ReadsQuestion(d)
    /\ d.col # NoColumn
    /\ \A k \in 1..Len(d.vals) : d.vals[k] # Raised

\* C21: a week-header line, at any indentation and with or without an active
\* week, closes the active week (its records are emitted) and opens the week
\* of the header with its label, its days and an empty accumulator; the
\* answers of a question line that follows the header are the values of its
\* column in that week.
C21_HeaderClosesAndOpensWeek ==
    [][/\ ReadsHeader =>
              /\ result' # "error"
              /\ Len(records') = Len(records) + Len(week_days)
              /\ week_label' = Text(LineHeader[line'].label)
              /\ week_days' = LineHeader[line'].days
              /\ DOMAIN week_data' = {}
       /\ \A d \in LogInputs :
              ReadsQuestionAfterHeader(d) =>
                  /\ d.col \in DOMAIN week_data'
                  /\ HoldsAnswers(week_data'[d.col], d)
      ]_vars

\* the columns of indentation of the described line, a tab counting as four
InputIndent(d) == Len(SelectSeq(d.pre, IsBlank)) + 4 * Len(SelectSeq(d.pre, IsTab))

\* the described line has no text
IsBlankInput(d) == d.body = <<>> /\ d.toks = <<>>

\* the text of the described line starts with '...'
IsDividerInput(d) == Len(d.body) >= 3 /\ SubSeq(d.body, 1, 3) = <<".", ".", ".">>

\* the described line has week-header shape
IsHeaderInput(d) == LineIsHeader[LineText(d)]

\* the described line is no header, is indented by four columns or more and
\* has no '?'
IsNoteInput(d) ==
    /\ ~IsHeaderInput(d)
    /\ InputIndent(d) >= 4
    /\ \A k \in 1..Len(d.body) : d.body[k] # "?"
    /\ d.toks = <<>>

\* the step reads the described line
Reads(d) == nread' = nread + 1 /\ line' = LineText(d)

\* the step leaves the active week, its accumulator and the emitted records
\* as they were and does not raise
LeavesWeekAlone ==
    /\ week_label' = week_label
    /\ week_days' = week_days
    /\ DOMAIN week_data' = DOMAIN week_data
    /\ \A c \in DOMAIN week_data : week_data'[c] = week_data[c]
    /\ records' = records
    /\ result' = result

\* C22: a blank line, a line that starts with '...', a line without '?' that
\* is indented by four columns or more and is no header, and a line that is
\* no header read while no week is active change nothing: the label, the day
\* list, the accumulated columns and the emitted records stay as they were.
C22_InertLinesChangeNothing ==
    [][\A d \in LogInputs :
           (/\ Reads(d)
            /\ \/ IsBlankInput(d)
               \/ IsDividerInput(d)
               \/ IsNoteInput(d)
               \/ ~IsHeaderInput(d) /\ ~Truthy(week_label)) => LeavesWeekAlone]_vars

\* a note of the active week was read and the accumulated column is in place
C22_Witness ==
    /\ pc = "loop"
    /\ nread > 1
    /\ Truthy(week_label)
    /\ DOMAIN week_data # {}
    /\ \E d \in LogInputs : line = LineText(d) /\ IsNoteInput(d) /\ ~IsDividerInput(d)

\* the described line has text, is no header and is indented by fewer than
\* four columns
IsShallowInput(d) ==
    /\ ~IsBlankInput(d)
    /\ ~IsHeaderInput(d)
    /\ InputIndent(d) < 4

\* C27: while a week is active, a line with text that is no header and is
\* indented by fewer than four columns does not close the week: the label, the
\* day list and the accumulated columns stay as they were, and the answers of
\* a question line read next, for a column without values, become the values
\* of that column in the same week.
C27_ShallowLineKeepsWeekOpen ==
    [][\A d \in LogInputs :
           /\ (Reads(d) /\ IsShallowInput(d) /\ Truthy(week_label)) => LeavesWeekAlone
           /\ (/\ nread > 0
               /\ \E e \in LogInputs : line = LineText(e) /\ IsShallowInput(e)
               /\ ReadsQuestion(d)
               /\ d.col # NoColumn
               /\ d.col \notin DOMAIN week_data
               /\ \A k \in 1..Len(d.vals) : d.vals[k] # Raised) =>
                  /\ week_label' = week_label
                  /\ week_days' = week_days
                  /\ d.col \in DOMAIN week_data'
                  /\ HoldsAnswers(week_data'[d.col], d)]_vars

\* a question line indented by two columns was read in an active week that
\* has a column and days
C27_Witness ==
    /\ pc = "loop"
    /\ nread > 1
    /\ Truthy(week_label)
    /\ week_days # <<>>
    /\ DOMAIN week_data # {}
    /\ \E d \in LogInputs :
           line = LineText(d) /\ IsShallowInput(d) /\ d.toks # <<>>

\* C26: within a week block the values of a column are those of the first
\* question line for it: the first question line of the block sets its
\* column, and a question line for a column that has values leaves them as
\* they are, neither replaced nor extended.
C26_FirstQuestionLineWins ==
    [][\A d \in LogInputs :
           (/\ ReadsQuestion(d)
            /\ d.col # NoColumn
            /\ \A k \in 1..Len(d.vals) : d.vals[k] # Raised) =>
               /\ (nread > 0 /\ LineIsHeader[line]) =>
                      /\ d.col \in DOMAIN week_data'
                      /\ HoldsAnswers(week_data'[d.col], d)
               /\ d.col \in DOMAIN week_data =>
                      /\ DOMAIN week_data' = DOMAIN week_data
                      /\ week_data'[d.col] = week_data[d.col]]_vars

\* C28: the records are in the order of the file: a step that closes a week
\* puts its records after all records of earlier blocks, with dates that go
\* up by one day from record to record and the label of the active week; a
\* header that opens a block makes its own label the label of the active
\* week; and in a returned frame the records with the same label are
\* contiguous and their dates consecutive.
C28_RecordsInFileOrder ==
    [][/\ ClosesWeek =>
              /\ Len(records') >= Len(records)
              /\ \A n \in 1..Len(records) : records'[n] = records[n]
              /\ \A n \in (Len(records) + 1)..Len(records') :
                     /\ records'[n]["week_label"] = week_label
                     /\ n > Len(records) + 1 =>
                            DaysBetween(records'[n]["date"], records'[n - 1]["date"]) = 1
       /\ (ReadsHeader /\ LineHeader[line'] # Raised /\ LineHeader[line'] # None) =>
              week_label' = Text(LineHeader[line'].label)
       /\ (pc' = "done" /\ result' = "ok") =>
              /\ ret'.rows = records
              /\ \A i, j \in 1..Len(records) :
                     (i < j /\ records[i]["week_label"] = records[j]["week_label"]) =>
                         DaysBetween(records[j]["date"], records[i]["date"]) = j - i
      ]_vars

\* a returned frame with the records of two week blocks
C28_Witness ==
    /\ pc = "done"
    /\ result = "ok"
    /\ \E i \in 1..Len(records) :
           /\ i + 2 <= Len(records)
           /\ records[i]["week_label"] = records[i + 1]["week_label"]
           /\ records[i + 1]["week_label"] # records[i + 2]["week_label"]

-----------------------------------------------------------------------------
(* Time statistics (log_parser.py:132-256): sines and cosines in fixed point *)

\* the circle is divided in half minutes: 2880 to the turn, so that the time
\* with m minutes since midnight has the angle 2 * m
HalfMinutes == 2880

\* the scale of the fixed-point sines and cosines
TrigScale == 10000

\* TrigScale * sin(k * 2 * pi / HalfMinutes), rounded, for k = 0..720 (the
\* first quarter of the turn)
SinTable ==
    <<
      0, 22, 44, 65, 87, 109, 131, 153, 175, 196, 218, 240,
      262, 284, 305, 327, 349, 371, 393, 414, 436, 458, 480, 502,
      523, 545, 567, 589, 610, 632, 654, 676, 698, 719, 741, 763,
      785, 806, 828, 850, 872, 893, 915, 937, 958, 980, 1002, 1024,
      1045, 1067, 1089, 1110, 1132, 1154, 1175, 1197, 1219, 1240, 1262, 1284,
      1305, 1327, 1349, 1370, 1392, 1413, 1435, 1457, 1478, 1500, 1521, 1543,
      1564, 1586, 1607, 1629, 1650, 1672, 1693, 1715, 1736, 1758, 1779, 1801,
      1822, 1844, 1865, 1887, 1908, 1930, 1951, 1972, 1994, 2015, 2036, 2058,
      2079, 2100, 2122, 2143, 2164, 2186, 2207, 2228, 2250, 2271, 2292, 2313,
      2334, 2356, 2377, 2398, 2419, 2440, 2462, 2483, 2504, 2525, 2546, 2567,
      2588, 2609, 2630, 2651, 2672, 2693, 2714, 2735, 2756, 2777, 2798, 2819,
      2840, 2861, 2882, 2903, 2924, 2945, 2965, 2986, 3007, 3028, 3049, 3069,
      3090, 3111, 3132, 3152, 3173, 3194, 3214, 3235, 3256, 3276, 3297, 3317,
      3338, 3359, 3379, 3400, 3420, 3441, 3461, 3482, 3502, 3523, 3543, 3563,
      3584, 3604, 3624, 3645, 3665, 3685, 3706, 3726, 3746, 3766, 3786, 3807,
      3827, 3847, 3867, 3887, 3907, 3927, 3947, 3967, 3987, 4007, 4027, 4047,
      4067, 4087, 4107, 4127, 4147, 4167, 4187, 4206, 4226, 4246, 4266, 4285,
      4305, 4325, 4344, 4364, 4384, 4403, 4423, 4442, 4462, 4481, 4501, 4520,
      4540, 4559, 4579, 4598, 4617, 4637, 4656, 4675, 4695, 4714, 4733, 4752,
      4772, 4791, 4810, 4829, 4848, 4867, 4886, 4905, 4924, 4943, 4962, 4981,
      5000, 5019, 5038, 5057, 5075, 5094, 5113, 5132, 5150, 5169, 5188, 5206,
      5225, 5244, 5262, 5281, 5299, 5318, 5336, 5355, 5373, 5391, 5410, 5428,
      5446, 5465, 5483, 5501, 5519, 5538, 5556, 5574, 5592, 5610, 5628, 5646,
      5664, 5682, 5700, 5718, 5736, 5754, 5771, 5789, 5807, 5825, 5842, 5860,
      5878, 5895, 5913, 5931, 5948, 5966, 5983, 6001, 6018, 6036, 6053, 6070,
      6088, 6105, 6122, 6139, 6157, 6174, 6191, 6208, 6225, 6242, 6259, 6276,
      6293, 6310, 6327, 6344, 6361, 6378, 6394, 6411, 6428, 6445, 6461, 6478,
      6494, 6511, 6528, 6544, 6561, 6577, 6593, 6610, 6626, 6643, 6659, 6675,
      6691, 6708, 6724, 6740, 6756, 6772, 6788, 6804, 6820, 6836, 6852, 6868,
      6884, 6899, 6915, 6931, 6947, 6962, 6978, 6994, 7009, 7025, 7040, 7056,
      7071, 7086, 7102, 7117, 7133, 7148, 7163, 7178, 7193, 7209, 7224, 7239,
      7254, 7269, 7284, 7299, 7314, 7328, 7343, 7358, 7373, 7387, 7402, 7417,
      7431, 7446, 7461, 7475, 7490, 7504, 7518, 7533, 7547, 7561, 7576, 7590,
      7604, 7618, 7632, 7646, 7660, 7674, 7688, 7702, 7716, 7730, 7744, 7758,
      7771, 7785, 7799, 7812, 7826, 7840, 7853, 7867, 7880, 7894, 7907, 7920,
      7934, 7947, 7960, 7973, 7986, 7999, 8013, 8026, 8039, 8052, 8064, 8077,
      8090, 8103, 8116, 8128, 8141, 8154, 8166, 8179, 8192, 8204, 8216, 8229,
      8241, 8254, 8266, 8278, 8290, 8303, 8315, 8327, 8339, 8351, 8363, 8375,
      8387, 8399, 8410, 8422, 8434, 8446, 8457, 8469, 8480, 8492, 8504, 8515,
      8526, 8538, 8549, 8560, 8572, 8583, 8594, 8605, 8616, 8627, 8638, 8649,
      8660, 8671, 8682, 8693, 8704, 8714, 8725, 8736, 8746, 8757, 8767, 8778,
      8788, 8799, 8809, 8819, 8829, 8840, 8850, 8860, 8870, 8880, 8890, 8900,
      8910, 8920, 8930, 8940, 8949, 8959, 8969, 8978, 8988, 8997, 9007, 9016,
      9026, 9035, 9045, 9054, 9063, 9072, 9081, 9091, 9100, 9109, 9118, 9127,
      9135, 9144, 9153, 9162, 9171, 9179, 9188, 9197, 9205, 9214, 9222, 9230,
      9239, 9247, 9255, 9264, 9272, 9280, 9288, 9296, 9304, 9312, 9320, 9328,
      9336, 9344, 9351, 9359, 9367, 9374, 9382, 9389, 9397, 9404, 9412, 9419,
      9426, 9434, 9441, 9448, 9455, 9462, 9469, 9476, 9483, 9490, 9497, 9504,
      9511, 9517, 9524, 9531, 9537, 9544, 9550, 9557, 9563, 9569, 9576, 9582,
      9588, 9594, 9600, 9607, 9613, 9619, 9625, 9630, 9636, 9642, 9648, 9654,
      9659, 9665, 9670, 9676, 9681, 9687, 9692, 9698, 9703, 9708, 9713, 9719,
      9724, 9729, 9734, 9739, 9744, 9749, 9753, 9758, 9763, 9768, 9772, 9777,
      9781, 9786, 9790, 9795, 9799, 9804, 9808, 9812, 9816, 9820, 9825, 9829,
      9833, 9837, 9840, 9844, 9848, 9852, 9856, 9859, 9863, 9866, 9870, 9873,
      9877, 9880, 9884, 9887, 9890, 9893, 9897, 9900, 9903, 9906, 9909, 9912,
      9914, 9917, 9920, 9923, 9925, 9928, 9931, 9933, 9936, 9938, 9941, 9943,
      9945, 9947, 9950, 9952, 9954, 9956, 9958, 9960, 9962, 9964, 9966, 9967,
      9969, 9971, 9973, 9974, 9976, 9977, 9979, 9980, 9981, 9983, 9984, 9985,
      9986, 9987, 9988, 9990, 9990, 9991, 9992, 9993, 9994, 9995, 9995, 9996,
      9997, 9997, 9998, 9998, 9998, 9999, 9999, 9999, 10000, 10000, 10000, 10000,
      10000
    >>

\* TrigScale * sin and cos of the angle of k half minutes
Sin(k) ==
    LET q == (k % HalfMinutes) \div 720
        r == (k % HalfMinutes) % 720
    IN  CASE q = 0 -> SinTable[r + 1]
          [] q = 1 -> SinTable[720 - r + 1]
          [] q = 2 -> -SinTable[r + 1]
          [] OTHER -> -SinTable[720 - r + 1]

Cos(k) == Sin(k + 720)

Abs(x) == IF x < 0 THEN -x ELSE x

RECURSIVE SumSeq(_)
SumSeq(s) == IF s = <<>> THEN 0 ELSE Head(s) + SumSeq(Tail(s))

\* [t for t in times if t is not None]
RECURSIVE DropNone(_)
DropNone(times) ==
    IF times = <<>> THEN <<>>
    ELSE IF Head(times) = None THEN DropNone(Tail(times))
    ELSE <<Head(times)>> \o DropNone(Tail(times))

\* t.hour * 60 + t.minute
MinutesOf(t) == t.hour * 60 + t.minute

-----------------------------------------------------------------------------
(* _avg_time (log_parser.py:132-194) *)

\* the cells [k, k + 1) of half minutes, -1440 <= k < 1440, in which
\* atan2(sin_sum, cos_sum) may lie for the sums of n fixed-point sines and
\* cosines: tol bounds the rounding of the table in the cross products, so a
\* direction on the border of two cells, or too close to it to tell, gives both
Atan2Cells(sin_sum, cos_sum, n) ==
    LET tol == n * TrigScale + (Abs(sin_sum) + Abs(cos_sum)) \div 2 + n
        Cross(k) == Cos(k) * sin_sum - Sin(k) * cos_sum
        Dot(k) == Cos(k) * cos_sum + Sin(k) * sin_sum
    IN  {k \in -1440..1439 : Dot(k) > 0 /\ Cross(k) >= -tol /\ Cross(k + 1) <= tol}

\* lines 181-182: a negative angle gets a full turn added
NormalizeAngle(k) == IF k < 0 THEN k + HalfMinutes ELSE k

\* lines 185-194 with the carry of the rounded minute left out:
\* datetime.time(hour, 60) raises ValueError
MeanTime_NoCarry(k) ==
    LET hour == (k \div 120) % 24
        minute == ((k % 120) + 1) \div 2
    IN  IF minute = 60 THEN Raised ELSE Time(hour, minute)

\* lines 185-194 for mean_total_minutes in the cell [k / 2, (k + 1) / 2):
\* the hour is the floor of the sixtieth, the minute is rounded, and a minute
\* of 60 carries into the next hour
MeanTime(k) ==
    LET hour == (k \div 120) % 24
        minute == ((k % 120) + 1) \div 2
    IN  IF minute = 60 THEN Time((hour + 1) % 24, 0) ELSE Time(hour, minute)

\* every time of day
AllTimes == {Time(h, m) : h \in 0..23, m \in 0..59}

\* _avg_time(times): the set of the results the floating-point computation may
\* give.  Where the sines and the cosines cancel (opposite times), rounding
\* alone decides the sums, so the result is None or any time.
_avg_time(times) ==
    LET ts == DropNone(times)
        angles == [i \in 1..Len(ts) |-> 2 * MinutesOf(ts[i])]
        sin_sum == SumSeq([i \in 1..Len(ts) |-> Sin(angles[i])])
        cos_sum == SumSeq([i \in 1..Len(ts) |-> Cos(angles[i])])
    IN  IF ts = <<>> THEN {None}
        ELSE IF Abs(sin_sum) + Abs(cos_sum) <= Len(ts) THEN {None} \cup AllTimes
        ELSE {MeanTime(NormalizeAngle(k)) :
                 k \in Atan2Cells(sin_sum, cos_sum, Len(ts))}

-----------------------------------------------------------------------------
(* _median, _median_time (log_parser.py:196-218) *)

\* a < b for floats
FloatLess(a, b) == a.num * b.den < b.num * a.den

\* (a + b) / 2
FloatMean2(a, b) == Fraction(a.num * b.den + b.num * a.den, 2 * a.den * b.den)

\* _median with the upper of the two middle values for an even count
_median_UpperMiddle(values) ==
    LET vs == SortSeq(DropNone(values), FloatLess)
    IN  IF vs = <<>> THEN None ELSE vs[(Len(vs) \div 2) + 1]

\* _median(values) for a list of floats and None
_median(values) ==
    LET vs == SortSeq(DropNone(values), FloatLess)
        mid == Len(vs) \div 2
    IN  IF vs = <<>> THEN None
        ELSE IF Len(vs) % 2 = 1 THEN vs[mid + 1]
        ELSE FloatMean2(vs[mid], vs[mid + 1])

\* floor of a float that is not negative
FloatFloor(a) == a.num \div a.den

\* _median_time(times)
_median_time(times) ==
    LET ts == DropNone(times)
        minutes == [i \in 1..Len(ts) |-> Float(MinutesOf(ts[i]), 1)]
        med == _median(minutes)
    IN  IF med = None THEN None
        ELSE Time((FloatFloor(med) \div 60) % 24, FloatFloor(med) % 60)

-----------------------------------------------------------------------------
(* _avg_offset (log_parser.py:240-256) *)

\* the distance without the wrap at midnight
_circ_diff_Linear(m, exp_minutes) == Abs(m - exp_minutes)

\* _circ_diff(m) of lines 249-253
_circ_diff(m, exp_minutes) ==
    LET diff == Abs(m - exp_minutes) % (24 * 60)
    IN  IF diff > 12 * 60 THEN 24 * 60 - diff ELSE diff

\* _avg_offset(times, expected)
_avg_offset(times, expected) ==
    LET ts == DropNone(times)
        exp_minutes == MinutesOf(expected)
        diffs == [i \in 1..Len(ts) |-> _circ_diff(MinutesOf(ts[i]), exp_minutes)]
    IN  IF ts = <<>> THEN None
        ELSE Fraction(SumSeq(diffs), Len(diffs))

-----------------------------------------------------------------------------
(* Direct calls of the time statistics *)

\* the most entries a list of times has
MaxTimes == 2

StatTimes ==
    {Time(0, 0), Time(0, 2), Time(0, 3), Time(6, 0), Time(7, 0), Time(12, 0),
     Time(17, 0), Time(18, 0), Time(23, 50), Time(23, 58)}

ExpectedTimes == {Time(23, 50), Time(11, 30), Time(0, 0)}

\* the lists of at most MaxTimes entries, each a time or None
TimeLists ==
    UNION {[1..n -> StatTimes \cup {None}] : n \in 0..MaxTimes}

InitTimeStats ==
    /\ fn = "stats"
    /\ arg \in [times : TimeLists, expected : ExpectedTimes]
    /\ ret = Pending
    /\ pc = "done"
    /\ nread = 0
    /\ line = <<>>
    /\ records = <<>>
    /\ week_label = None
    /\ week_days = <<>>
    /\ week_data = <<>>
    /\ result = "running"

CallAvgTime ==
    /\ fn = "stats"
    /\ fn' = "_avg_time"
    /\ ret' \in _avg_time(arg.times)
    /\ UNCHANGED <<pc, nread, line, records, week_label, week_days, week_data,
                   result, arg>>

CallMedianTime ==
    /\ fn = "stats"
    /\ fn' = "_median_time"
    /\ ret' = _median_time(arg.times)
    /\ UNCHANGED <<pc, nread, line, records, week_label, week_days, week_data,
                   result, arg>>

CallAvgOffset ==
    /\ fn = "stats"
    /\ fn' = "_avg_offset"
    /\ ret' = _avg_offset(arg.times, arg.expected)
    /\ UNCHANGED <<pc, nread, line, records, week_label, week_days, week_data,
                   result, arg>>

NextTimeStats == CallAvgTime \/ CallMedianTime \/ CallAvgOffset

SpecTimeStats == InitTimeStats /\ [][NextTimeStats]_vars

-----------------------------------------------------------------------------
(* Properties of the time statistics, checked under SpecTimeStats *)

\* the minutes of day of the times of the argument that are not None
ArgMinutes ==
    LET ts == SelectSeq(arg.times, LAMBDA t : t # None)
    IN  [i \in 1..Len(ts) |-> ts[i].hour * 60 + ts[i].minute]

Min2(a, b) == IF a < b THEN a ELSE b

\* the shorter arc between the minutes of day t and e
ShorterArc(t, e) == Min2((t - e) % 1440, (e - t) % 1440)

\* C13: the offset of a time t from the expected time e that _avg_offset uses
\* is min((t - e) mod 1440, (e - t) mod 1440); it lies in 0..720, is the same
\* for e from t, and is 0 exactly when t = e; the result is the arithmetic
\* mean of the offsets (00:00 against 23:50 gives 10).
C13_OffsetIsShorterArc ==
    (fn = "_avg_offset" /\ ArgMinutes # <<>>) =>
        LET e == arg.expected.hour * 60 + arg.expected.minute
            n == Len(ArgMinutes)
            total == SumSeq([i \in 1..n |-> ShorterArc(ArgMinutes[i], e)])
        IN  /\ \A i \in 1..n :
                   LET t == ArgMinutes[i]
                       d == _circ_diff(t, e)
                   IN  /\ d = ShorterArc(t, e)
                       /\ d \in 0..720
                       /\ d = _circ_diff(e, t)
                       /\ (d = 0) <=> (t = e)
            /\ ret.kind = "float"
            /\ ret.num * n = total * ret.den
            /\ (arg.times = <<Time(0, 0)>> /\ arg.expected = Time(23, 50))
                   => ret = Float(10, 1)

\* the offset of 00:00 from 23:50, across midnight
C13_Witness ==
    /\ fn = "_avg_offset"
    /\ arg.times = <<Time(0, 0)>>
    /\ arg.expected = Time(23, 50)
    /\ ret = Float(10, 1)

\* the argument holds exactly two times, m and 1440 - m minutes of day, each
\* less than six hours from midnight
ArgAroundMidnight ==
    /\ Len(ArgMinutes) = 2
    /\ ArgMinutes[1] + ArgMinutes[2] = 1440
    /\ Abs(ArgMinutes[1] - ArgMinutes[2]) > 720

\* C14: the circular mean of two times placed symmetrically around midnight
\* (each less than six hours from it), such as 23:58 and 00:02, is 00:00,
\* also where the rounded minute reaches 60 and carries into hour 0.
C14_MeanAroundMidnight ==
    (fn = "_avg_time" /\ ArgAroundMidnight) => ret = Time(0, 0)

\* the circular mean of 23:58 and 00:02
C14_Witness ==
    /\ fn = "_avg_time"
    /\ arg.times = <<Time(23, 58), Time(0, 2)>>
    /\ ret = Time(0, 0)

\* the k-th smallest (k from 1) of the numbers of the list ms
KthSmallest(ms, k) ==
    CHOOSE v \in {ms[i] : i \in 1..Len(ms)} :
        /\ Cardinality({i \in 1..Len(ms) : ms[i] < v}) < k
        /\ Cardinality({i \in 1..Len(ms) : ms[i] <= v}) >= k

\* C15: _median_time gives the ordinary median of the minutes of day of the
\* times that are not None (the middle value for an odd count, the mean of
\* the two middle values with the fraction cut off for an even count) as hour
\* and minute; the median of 23:58 and 00:02 is 12:00.
C15_MedianIsNotCircular ==
    (fn = "_median_time" /\ ArgMinutes # <<>>) =>
        LET n == Len(ArgMinutes)
            lo == KthSmallest(ArgMinutes, ((n - 1) \div 2) + 1)
            hi == KthSmallest(ArgMinutes, (n \div 2) + 1)
            med == (lo + hi) \div 2
        IN  /\ ret = Time(med \div 60, med % 60)
            /\ arg.times = <<Time(23, 58), Time(0, 2)>> => ret = Time(12, 0)

\* the median of 23:58 and 00:02
C15_Witness ==
    /\ fn = "_median_time"
    /\ arg.times = <<Time(23, 58), Time(0, 2)>>
    /\ ret = Time(12, 0)

-----------------------------------------------------------------------------
(* _std, _std_time (log_parser.py:221-237) and float arithmetic *)

FloatAdd(a, b) == Fraction(a.num * b.den + b.num * a.den, a.den * b.den)

FloatSub(a, b) == Fraction(a.num * b.den - b.num * a.den, a.den * b.den)

FloatMul(a, b) == Fraction(a.num * b.num, a.den * b.den)

\* a / n for a count n > 0
FloatDivInt(a, n) == Fraction(a.num, a.den * n)

\* sum(values) for a list of floats
RECURSIVE FloatSum(_)
FloatSum(values) ==
    IF values = <<>> THEN Float(0, 1)
    ELSE FloatAdd(Head(values), FloatSum(Tail(values)))

\* math.sqrt(v), kept as the root of the exact fraction v
Sqrt(v) == IF v.num = 0 THEN Float(0, 1) ELSE [kind |-> "sqrt", of |-> v]

\* a standard deviation in which None counts as 0
_std_NoneAsZero(values) ==
    LET vs == [i \in 1..Len(values) |->
                  IF values[i] = None THEN Float(0, 1) ELSE values[i]]
        mean_val == FloatDivInt(FloatSum(vs), Len(vs))
        sq == [i \in 1..Len(vs) |->
                  FloatMul(FloatSub(vs[i], mean_val), FloatSub(vs[i], mean_val))]
    IN  IF vs = <<>> THEN None
        ELSE Sqrt(FloatDivInt(FloatSum(sq), Len(vs)))

\* _std(values): the population standard deviation of the values not None
_std(values) ==
    LET vs == DropNone(values)
        mean_val == FloatDivInt(FloatSum(vs), Len(vs))
        sq == [i \in 1..Len(vs) |->
                  FloatMul(FloatSub(vs[i], mean_val), FloatSub(vs[i], mean_val))]
    IN  IF vs = <<>> THEN None
        ELSE Sqrt(FloatDivInt(FloatSum(sq), Len(vs)))

\* _std_time(times)
_std_time(times) ==
    LET ts == DropNone(times)
    IN  _std([i \in 1..Len(ts) |-> Float(MinutesOf(ts[i]), 1)])

-----------------------------------------------------------------------------
(* pandas.DataFrame: the column names and the rows, a row being a function   *)
(* from column names to values; a cell without value is None (NaN)           *)

\* a dict, kept as the function from its keys to their values
Dict(items) == [kind |-> "dict", items |-> items]

\* pd.DataFrame(records): the columns are the keys of the records
DataFrame(recs) ==
    [kind |-> "DataFrame",
     columns |-> UNION {DOMAIN recs[i] : i \in 1..Len(recs)},
     rows |-> recs]

\* df.empty
IsEmptyFrame(df) == df.rows = <<>> \/ df.columns = {}

\* the cell of row i in column col
Cell(df, i, col) ==
    IF col \in DOMAIN df.rows[i] THEN df.rows[i][col] ELSE None

\* the keys of df.groupby('week_label'): rows without label form no group
GroupLabels(df) ==
    {Cell(df, i, "week_label") : i \in 1..Len(df.rows)} \ {None}

\* RowsOf(df, idx, label): the rows of the group, in the order of the frame
RECURSIVE RowsOf(_, _, _)
RowsOf(df, i, label) ==
    IF i > Len(df.rows) THEN <<>>
    ELSE IF Cell(df, i, "week_label") = label
         THEN <<df.rows[i]>> \o RowsOf(df, i + 1, label)
         ELSE RowsOf(df, i + 1, label)

\* wk_df of the loop of line 410
GroupFrame(df, label) ==
    [kind |-> "DataFrame", columns |-> df.columns, rows |-> RowsOf(df, 1, label)]

\* wk_df[col].dropna().tolist() if col in wk_df else []
ColumnValues(wk_df, col) ==
    IF col \in wk_df.columns
    THEN DropNone([i \in 1..Len(wk_df.rows) |-> Cell(wk_df, i, col)])
    ELSE <<>>

-----------------------------------------------------------------------------
(* compute_weekly_stats (log_parser.py:57-62, 402-452) *)

EXPECTED_TIMES ==
    [col \in TIME_COLS |->
        CASE col = "wind_down_start_time" -> Time(2, 50)
          [] col = "bed_time" -> Time(4, 0)
          [] col = "wake_up_time" -> Time(11, 30)
          [] OTHER -> Time(11, 35)]

\* t.strftime('%I:%M%p').lower(), such as "07:15am"
FormatTime(t) ==
    Format02d(IF t.hour % 12 = 0 THEN 12 ELSE t.hour % 12)
        \o <<":">> \o Format02d(t.minute)
        \o (IF t.hour < 12 THEN <<"a", "m">> ELSE <<"p", "m">>)

\* x.strftime('%I:%M%p').lower() if x else None
FormatOrNone(t) == IF t = None THEN None ELSE Text(FormatTime(t))

\* the name of a statistics column: f'{col}_{stat}' as the pair of its parts,
\* a name without parts as a tuple of one
StatName(col, stat) == <<col, stat>>

TimeStatNames == {StatName(c, s) : c \in TIME_COLS,
                     s \in {"avg", "median", "std",
                            "offset_avg", "offset_median", "offset_std"}}

NumericStatNames == {StatName(c, s) : c \in NUMERIC_COLS,
                        s \in {"avg", "median", "std"}}

\* the functions that give each key k one of the values of outs[k]
RECURSIVE Choices(_)
Choices(outs) ==
    IF DOMAIN outs = {} THEN {<<>>}
    ELSE LET k == CHOOSE x \in DOMAIN outs : TRUE
             rest == [j \in DOMAIN outs \ {k} |-> outs[j]]
         IN  {(k :> v) @@ g : v \in outs[k], g \in Choices(rest)}

\* a sum that is NaN when a cell of the week has no value
TotalDrinks_NoFillna(wk_df) ==
    IF "alcohol_drinks" \in wk_df.columns
    THEN IF \E i \in 1..Len(wk_df.rows) : Cell(wk_df, i, "alcohol_drinks") = None
         THEN [kind |-> "nan"]
         ELSE FloatSum([i \in 1..Len(wk_df.rows) |->
                           Cell(wk_df, i, "alcohol_drinks")])
    ELSE Float(0, 1)

\* line 414: the sum of the drink counts of the week, a cell without value
\* counting 0, and 0 without the column
TotalDrinks(wk_df) ==
    IF "alcohol_drinks" \in wk_df.columns
    THEN FloatSum([i \in 1..Len(wk_df.rows) |->
                      IF Cell(wk_df, i, "alcohol_drinks") = None THEN Float(0, 1)
                      ELSE Cell(wk_df, i, "alcohol_drinks")])
    ELSE Float(0, 1)

\* lines 417-418: the circular means _avg_time may give for the column
TimeAvgOutcomes(wk_df, col) ==
    LET times == ColumnValues(wk_df, col)
    IN  IF times = <<>> THEN {None} ELSE _avg_time(times)

\* lines 417-438 for one clock-time column, avg_t being the circular mean
TimeColStat(wk_df, col, stat, avg_t) ==
    LET times == ColumnValues(wk_df, col)
        exp_minutes == MinutesOf(EXPECTED_TIMES[col])
        offsets == [i \in 1..Len(times) |->
                       Float(_circ_diff(MinutesOf(times[i]), exp_minutes), 1)]
    IN  IF times = <<>> THEN None
        ELSE CASE stat = "avg" -> FormatOrNone(avg_t)
               [] stat = "median" -> FormatOrNone(_median_time(times))
               [] stat = "std" -> _std_time(times)
               [] stat = "offset_avg" -> FloatDivInt(FloatSum(offsets), Len(offsets))
               [] stat = "offset_median" -> _median(offsets)
               [] OTHER -> _std(offsets)

\* statistics of a numeric column in which a day without value counts as 0
NumericColStat_AllDays(wk_df, col, stat) ==
    LET vals == [i \in 1..Len(wk_df.rows) |->
                    IF Cell(wk_df, i, col) = None THEN Float(0, 1)
                    ELSE Cell(wk_df, i, col)]
    IN  CASE stat = "avg" -> FloatDivInt(FloatSum(vals), Len(vals))
          [] stat = "median" -> _median(vals)
          [] OTHER -> _std(vals)

\* lines 441-447 for one numeric column
NumericColStat(wk_df, col, stat) ==
    LET vals == ColumnValues(wk_df, col)
    IN  IF vals = <<>> THEN None
        ELSE CASE stat = "avg" -> FloatDivInt(FloatSum(vals), Len(vals))
               [] stat = "median" -> _median(vals)
               [] OTHER -> _std(vals)

\* week_stats_df: the one row of statistics of the week, avgs giving the
\* circular mean of each clock-time column
WeekStats(wk_df, avgs) ==
    (<<"total_drinks">> :> TotalDrinks(wk_df))
        @@ [n \in TimeStatNames |-> TimeColStat(wk_df, n[1], n[2], avgs[n[1]])]
        @@ [n \in NumericStatNames |-> NumericColStat(wk_df, n[1], n[2])]

\* the maps from week label to statistics row the loop of lines 410-450 may
\* build (one, unless rounding decides a circular mean)
WeeklyFrames(df) ==
    Choices([label \in GroupLabels(df) |->
                LET wk_df == GroupFrame(df, label)
                IN  {WeekStats(wk_df, avgs) :
                        avgs \in Choices([col \in TIME_COLS |->
                                             TimeAvgOutcomes(wk_df, col)])}])

\* a compute_weekly_stats that groups without looking for the label column
compute_weekly_stats_NoColumnCheck(df) ==
    IF IsEmptyFrame(df) THEN {Dict(<<>>)}
    ELSE IF "week_label" \notin df.columns THEN {Raised}
    ELSE {Dict(weekly_dfs) : weekly_dfs \in WeeklyFrames(df)}

\* compute_weekly_stats(df): the dicts the call may return
compute_weekly_stats(df) ==
    IF IsEmptyFrame(df) \/ "week_label" \notin df.columns THEN {Dict(<<>>)}
    ELSE {Dict(weekly_dfs) : weekly_dfs \in WeeklyFrames(df)}

-----------------------------------------------------------------------------
(* _filter_non_empty_frames, compute_overall_stats (log_parser.py:455-514)  *)
(* A weekly statistics frame has one row and is kept as that row.           *)

\* float('nan')
NaN == [kind |-> "nan"]

IsNumber(v) == v.kind \in {"float", "sqrt", "mean"}

IsStr(v) == v.kind = "str"

\* a sequence of the elements of the set, each once
RECURSIVE SeqOfSet(_)
SeqOfSet(S) ==
    IF S = {} THEN <<>>
    ELSE LET x == CHOOSE x \in S : TRUE IN <<x>> \o SeqOfSet(S \ {x})

\* list(weekly_stats.values())
FramesOf(weekly_stats) ==
    LET labels == SeqOfSet(DOMAIN weekly_stats.items)
    IN  [i \in 1..Len(labels) |-> weekly_stats.items[labels[i]]]

\* df.dropna(how="all").empty for a frame of one row
IsAllNullFrame(row) == \A n \in DOMAIN row : row[n] = None

\* a filter that also drops the frames whose only value is total_drinks
_filter_non_empty_frames_DataOnly(frames) ==
    SelectSeq(frames,
              LAMBDA row : \E n \in DOMAIN row \ {<<"total_drinks">>} : row[n] # None)

\* _filter_non_empty_frames(frames)
_filter_non_empty_frames(frames) ==
    SelectSeq(frames, LAMBDA row : ~IsAllNullFrame(row))

\* the values of a column of pd.concat(valid_stats)
CombinedColumn(valid_stats, col) ==
    [i \in 1..Len(valid_stats) |->
        IF col \in DOMAIN valid_stats[i] THEN valid_stats[i][col] ELSE None]

\* The dtype of a column of pd.concat(valid_stats).  A column that is a number
\* in some frames and None (dtype object) in the others is float64 with NaN
\* where pandas leaves all-NA columns out of the dtype (all_na_ignored, before
\* pandas 3) and object otherwise.
CombinedDtype(valid_stats, col, all_na_ignored) ==
    LET vals == CombinedColumn(valid_stats, col)
        idx == 1..Len(vals)
    IN  IF \A i \in idx : vals[i] # None /\ IsNumber(vals[i]) THEN "number"
        ELSE IF /\ all_na_ignored
                /\ \E i \in idx : vals[i] # None
                /\ \A i \in idx : vals[i] = None \/ IsNumber(vals[i])
             THEN "number"
        ELSE "object"

\* sum(values) / len(values) of line 497: NaN with a NaN among the values, the
\* exact fraction for floats, else the mean kept as its terms
MeanOf(vals) ==
    IF \E i \in 1..Len(vals) : vals[i] = None THEN NaN
    ELSE IF \A i \in 1..Len(vals) : vals[i].kind = "float"
         THEN FloatDivInt(FloatSum(vals), Len(vals))
    ELSE [kind |-> "mean", of |-> vals]

\* pd.to_datetime(t).time() for a string of the form FormatTime writes
PandasTimeOf(s) ==
    LET m == TimeReMatch(s)
    IN  Time(MeridiemHour(ToInt(m.g1), m.g3), ToInt(m.g2))

\* lines 505-508: the times of the strings of a column
TimesOfColumn(vals) ==
    LET strs == SelectSeq(vals, LAMBDA v : v # None /\ IsStr(v))
    IN  [i \in 1..Len(strs) |-> PandasTimeOf(strs[i].chars)]

\* compute_overall_stats(weekly_stats): the frames the call may return
compute_overall_stats(weekly_stats, all_na_ignored) ==
    LET valid_stats == _filter_non_empty_frames(FramesOf(weekly_stats))
        columns == UNION {DOMAIN valid_stats[i] : i \in 1..Len(valid_stats)}
        numeric_cols == {c \in columns :
                            CombinedDtype(valid_stats, c, all_na_ignored) = "number"}
        time_cols == {c \in columns \ numeric_cols :
                         \E i \in 1..Len(valid_stats) :
                             LET v == CombinedColumn(valid_stats, c)[i]
                             IN  v # None /\ IsStr(v)
                                 /\ \E j \in 1..Len(v.chars) : v.chars[j] = ":"}
        means == [c \in numeric_cols |-> MeanOf(CombinedColumn(valid_stats, c))]
        median == IF <<"total_drinks">> \in columns
                  THEN (<<"total_drinks_median">> :>
                           _median(CombinedColumn(valid_stats, <<"total_drinks">>)))
                  ELSE <<>>
    IN  IF DOMAIN weekly_stats.items = {} \/ valid_stats = <<>>
        THEN {DataFrame(<<>>)}
        ELSE {DataFrame(<<means @@ median
                           @@ [c \in {x \in time_cols : avg_t[x] # None} |->
                                  Text(FormatTime(avg_t[c]))]>>) :
                 avg_t \in Choices([c \in time_cols |->
                     _avg_time(TimesOfColumn(CombinedColumn(valid_stats, c)))])}

-----------------------------------------------------------------------------
(* The statistics of a parsed log: compute_weekly_stats of the frame        *)
(* parse_log returned, then compute_overall_stats of the weekly statistics  *)

MaxRows == 2

WeekA == Text(<<"0", "1", "0", "1", "-", "0", "1", "0", "7">>)
WeekB == Text(<<"0", "1", "0", "8", "-", "0", "1", "1", "4">>)
WeekC == Text(<<"0", "1", "1", "5", "-", "0", "1", "2", "1">>)

\* a record of parse_log with a drink count only
Drinks(label, n) ==
    [c \in {"week_label", "alcohol_drinks"} |->
        IF c = "week_label" THEN label ELSE Float(n, 1)]

\* a record of parse_log with a wake-up time, a mood and a drink count
Day(label, wake, mood, drinks) ==
    [c \in {"week_label", "wake_up_time", "mood", "alcohol_drinks"} |->
        CASE c = "week_label" -> label
          [] c = "wake_up_time" -> wake
          [] c = "mood" -> mood
          [] OTHER -> drinks]

StatRecords ==
    {Day(WeekA, Time(23, 58), Float(3, 1), Float(1, 1)),
     Day(WeekA, Time(0, 2), None, None),
     Day(WeekB, Time(7, 0), Float(4, 1), Float(2, 1)),
     Day(WeekB, None, Float(5, 1), Float(3, 1)),
     Day(WeekC, None, None, None),
     Day(None, Time(7, 0), None, Float(2, 1)),
     Drinks(WeekA, 1),
     Drinks(WeekB, 2),
     [c \in {"week_label"} |-> WeekC]}

\* the log of the tests: a week of drink counts 1, 1, 1 and one of 2, 2, 3
SampleFrame ==
    DataFrame(<<Drinks(WeekA, 1), Drinks(WeekA, 1), Drinks(WeekA, 1),
                Drinks(WeekB, 2), Drinks(WeekB, 2), Drinks(WeekB, 3)>>)

\* three weeks, the third without any value
ThreeWeekFrame ==
    DataFrame(<<Drinks(WeekA, 1), Day(WeekB, Time(7, 0), Float(4, 1), Float(3, 1)),
                Day(WeekC, None, None, None), Drinks(WeekB, 2)>>)

\* pd.DataFrame({'foo': [1, 2]})
FooFrame == DataFrame(<<[c \in {"foo"} |-> Float(1, 1)], [c \in {"foo"} |-> Float(2, 1)]>>)

\* a frame with columns and no rows
NoRowsFrame ==
    [kind |-> "DataFrame", columns |-> {"week_label", "alcohol_drinks"}, rows |-> <<>>]

StatFrames ==
    {DataFrame(recs) : recs \in UNION {[1..n -> StatRecords] : n \in 0..MaxRows}}
        \cup {SampleFrame, ThreeWeekFrame, FooFrame, NoRowsFrame}

InitStats ==
    /\ fn = "stats"
    /\ result \in StatFrames
    /\ arg = None
    /\ ret = Pending
    /\ pc = "done"
    /\ nread = 0
    /\ line = <<>>
    /\ records = <<>>
    /\ week_label = None
    /\ week_days = <<>>
    /\ week_data = <<>>

\* weekly = compute_weekly_stats(df)
CallComputeWeeklyStats ==
    /\ fn = "stats"
    /\ fn' = "compute_weekly_stats"
    /\ arg' = result
    /\ ret' \in compute_weekly_stats(result)
    /\ UNCHANGED <<pc, nread, line, records, week_label, week_days, week_data,
                   result>>

\* overall = compute_overall_stats(weekly), under either pandas
CallComputeOverallStats ==
    /\ fn = "compute_weekly_stats"
    /\ fn' = "compute_overall_stats"
    /\ arg' = ret
    /\ \E all_na_ignored \in BOOLEAN :
           ret' \in compute_overall_stats(ret, all_na_ignored)
    /\ UNCHANGED <<pc, nread, line, records, week_label, week_days, week_data,
                   result>>

NextStats == CallComputeWeeklyStats \/ CallComputeOverallStats

SpecStats == InitStats /\ [][NextStats]_vars

-----------------------------------------------------------------------------
(* Properties of the statistics, checked under SpecStats *)

\* the call of compute_weekly_stats has returned
WeeklyReturned == fn = "compute_weekly_stats"

\* the drink count of a record, 0 for a record without one
DrinkCount(rec) ==
    IF "alcohol_drinks" \in DOMAIN rec /\ rec["alcohol_drinks"] # None
    THEN rec["alcohol_drinks"].num
    ELSE 0

\* the sum of the drink counts of the records of the week
WeekDrinks(df, label) ==
    SumSeq([i \in 1..Len(df.rows) |->
               IF df.rows[i]["week_label"] = label THEN DrinkCount(df.rows[i])
               ELSE 0])

\* C16: compute_weekly_stats of records with week labels returns a dict whose
\* keys are exactly the distinct week labels of the records, and the
\* total_drinks of each entry is the sum of the drink counts of the records
\* of that week, a record without drink count adding zero.
C16_OneEntryPerWeekWithDrinkSum ==
    (WeeklyReturned /\ arg.rows # <<>> /\ "week_label" \in arg.columns) =>
        /\ ret.kind = "dict"
        /\ DOMAIN ret.items =
               {arg.rows[i]["week_label"] : i \in 1..Len(arg.rows)} \ {None}
        /\ \A label \in DOMAIN ret.items :
               ret.items[label][<<"total_drinks">>] =
                   Float(WeekDrinks(arg, label), 1)

\* weeks with the counts 1, 1, 1 and 2, 2, 3 have the totals 3 and 7
C16_Witness ==
    /\ WeeklyReturned
    /\ arg = SampleFrame
    /\ DOMAIN ret.items = {WeekA, WeekB}
    /\ ret.items[WeekA][<<"total_drinks">>] = Float(3, 1)
    /\ ret.items[WeekB][<<"total_drinks">>] = Float(7, 1)

\* C19: compute_weekly_stats of a table without rows or without week_label
\* column returns an empty dict and does not raise.
C19_EmptyInputGivesEmptyMap ==
    (WeeklyReturned /\ (arg.rows = <<>> \/ "week_label" \notin arg.columns)) =>
        (ret.kind = "dict" /\ DOMAIN ret.items = {})

\* the table with the one column foo gives the empty dict
C19_Witness ==
    /\ WeeklyReturned
    /\ arg = FooFrame
    /\ ret.kind = "dict"
    /\ DOMAIN ret.items = {}

\* the call of compute_overall_stats has returned: arg is the dict of weekly
\* statistics of the frame result, ret the overall table
OverallReturned == fn = "compute_overall_stats"

\* the week labels of the frame all of whose records have every field other
\* than the label null or absent
NullWeeks(df) ==
    {label \in {df.rows[i]["week_label"] : i \in 1..Len(df.rows)} \ {None} :
        \A i \in 1..Len(df.rows) :
            df.rows[i]["week_label"] = label =>
                \A c \in DOMAIN df.rows[i] \ {"week_label"} : df.rows[i][c] = None}

\* the weekly statistics without the weeks of the set
WithoutWeeks(weekly_stats, weeks) ==
    Dict([label \in DOMAIN weekly_stats.items \ weeks |-> weekly_stats.items[label]])

\* C17: the overall table computed from the weekly statistics of a frame is
\* the overall table computed from the weekly statistics without the weeks
\* whose records have no value at all: such a week adds nothing to a mean or
\* a median.
C17_AllNullWeekIsExcluded ==
    (OverallReturned /\ "week_label" \in result.columns) =>
        \E all_na_ignored \in BOOLEAN :
            ret \in compute_overall_stats(WithoutWeeks(arg, NullWeeks(result)),
                                          all_na_ignored)

\* the total_drinks of the weeks of the weekly statistics, as whole numbers
WeekTotals(weekly_stats) ==
    LET labels == SeqOfSet(DOMAIN weekly_stats.items)
    IN  [i \in 1..Len(labels) |->
            weekly_stats.items[labels[i]][<<"total_drinks">>].num]

WeekValues(df, label, col) ==
    LET recs == SelectSeq(df.rows,
                          LAMBDA r : /\ r["week_label"] = label
                                     /\ col \in DOMAIN r
                                     /\ r[col] # None)
    IN  [i \in 1..Len(recs) |-> recs[i][col]]

\* the whole numbers of a list of floats
WholeNumbers(vals) == [i \in 1..Len(vals) |-> vals[i].num]

\* the mean, the median and the population standard deviation of a list of
\* whole numbers that is not empty
MeanOfWhole(ms) == Fraction(SumSeq(ms), Len(ms))

MedianOfWhole(ms) ==
    LET n == Len(ms)
    IN  Fraction(KthSmallest(ms, ((n - 1) \div 2) + 1)
                     + KthSmallest(ms, (n \div 2) + 1), 2)

StdOfWhole(ms) ==
    LET n == Len(ms)
        squares == SumSeq([i \in 1..n |-> ms[i] * ms[i]])
        variance == Fraction(n * squares - SumSeq(ms) * SumSeq(ms), n * n)
    IN  IF variance.num = 0 THEN Float(0, 1) ELSE [kind |-> "sqrt", of |-> variance]

\* C23: in the statistics of every week, the average, the median and the
\* standard deviation of a numeric column are those of the values the week's
\* records have in the column, days without value left out of the count, and
\* those of a clock-time column are the circular mean, the median and the
\* deviation of the week's times; a column without any value in the week has
\* null for each of its statistics, and nothing raises.
C23_WeekStatsOverNonNullValues ==
    (WeeklyReturned /\ arg.rows # <<>> /\ "week_label" \in arg.columns) =>
        /\ ret.kind = "dict"
        /\ \A label \in DOMAIN ret.items :
               LET row == ret.items[label]
               IN  /\ \A col \in NUMERIC_COLS :
                          LET ms == WholeNumbers(WeekValues(arg, label, col))
                          IN  IF ms = <<>>
                              THEN \A stat \in {"avg", "median", "std"} :
                                       row[<<col, stat>>] = None
                              ELSE /\ row[<<col, "avg">>] = MeanOfWhole(ms)
                                   /\ row[<<col, "median">>] = MedianOfWhole(ms)
                                   /\ row[<<col, "std">>] = StdOfWhole(ms)
                   /\ \A col \in TIME_COLS :
                          LET times == WeekValues(arg, label, col)
                          IN  IF times = <<>>
                              THEN \A stat \in {"avg", "median", "std"} :
                                       row[<<col, stat>>] = None
                              ELSE /\ \E t \in _avg_time(times) :
                                          row[<<col, "avg">>] = FormatOrNone(t)
                                   /\ row[<<col, "median">>]
                                          = FormatOrNone(_median_time(times))
                                   /\ row[<<col, "std">>] = _std_time(times)

\* a week of two days, one without mood and drink count: the mood average is
\* the one mood, and the circular mean of 23:58 and 00:02 is midnight
C23_Witness ==
    /\ WeeklyReturned
    /\ arg = DataFrame(<<Day(WeekA, Time(23, 58), Float(3, 1), Float(1, 1)),
                         Day(WeekA, Time(0, 2), None, None)>>)
    /\ ret.items[WeekA][<<"mood", "avg">>] = Float(3, 1)
    /\ ret.items[WeekA][<<"alcohol_drinks", "std">>] = Float(0, 1)
    /\ ret.items[WeekA][<<"wake_up_time", "avg">>] = Text(<<"1", "2", ":", "0", "0", "a", "m">>)
    /\ ret.items[WeekA][<<"sleep_hours", "avg">>] = None
    /\ ret.items[WeekA][<<"bed_time", "median">>] = None

-----------------------------------------------------------------------------
(* Direct calls of the six statistics helpers, on lists with None entries *)

MaxValues == 3

StatValues == {Float(1, 1), Float(2, 1), Float(5, 1), Float(3, 2)}

\* the lists of at most MaxValues entries, each a float or None
ValueLists == UNION {[1..n -> StatValues \cup {None}] : n \in 0..MaxValues}

InitStatHelpers ==
    /\ fn = "stats"
    /\ \/ arg \in [times : TimeLists, expected : {Time(11, 30)}, values : {<<>>}]
       \/ arg \in [times : {<<>>}, expected : {Time(11, 30)}, values : ValueLists]
    /\ ret = Pending
    /\ pc = "done"
    /\ nread = 0
    /\ line = <<>>
    /\ records = <<>>
    /\ week_label = None
    /\ week_days = <<>>
    /\ week_data = <<>>
    /\ result = "running"

CallStdTime ==
    /\ fn = "stats"
    /\ fn' = "_std_time"
    /\ ret' = _std_time(arg.times)
    /\ UNCHANGED <<pc, nread, line, records, week_label, week_days, week_data,
                   result, arg>>

CallMedian ==
    /\ fn = "stats"
    /\ fn' = "_median"
    /\ ret' = _median(arg.values)
    /\ UNCHANGED <<pc, nread, line, records, week_label, week_days, week_data,
                   result, arg>>

CallStd ==
    /\ fn = "stats"
    /\ fn' = "_std"
    /\ ret' = _std(arg.values)
    /\ UNCHANGED <<pc, nread, line, records, week_label, week_days, week_data,
                   result, arg>>

NextStatHelpers ==
    \/ CallAvgTime
    \/ CallMedianTime
    \/ CallAvgOffset
    \/ CallStdTime
    \/ CallMedian
    \/ CallStd

SpecStatHelpers == InitStatHelpers /\ [][NextStatHelpers]_vars

\* the entries of the list that are not None, in their order
NonNull(list) == SelectSeq(list, LAMBDA v : v # None)

\* twice the values of a list of floats with denominators 1 and 2
Doubled(vals) == [i \in 1..Len(vals) |-> (2 * vals[i].num) \div vals[i].den]

\* C24: each statistics helper gives for a list what it gives for the list
\* without its None entries, and None for a list without other entries;
\* _median of a list with values is the middle one of the sorted values for
\* an odd count and the mean of the two middle ones for an even count,
\* whatever the order of the list.
C24_HelpersIgnoreNulls ==
    /\ fn = "_avg_time" =>
           /\ ret \in _avg_time(NonNull(arg.times))
           /\ NonNull(arg.times) = <<>> => ret = None
    /\ fn = "_median_time" =>
           /\ ret = _median_time(NonNull(arg.times))
           /\ NonNull(arg.times) = <<>> => ret = None
    /\ fn = "_std_time" =>
           /\ ret = _std_time(NonNull(arg.times))
           /\ NonNull(arg.times) = <<>> => ret = None
    /\ fn = "_avg_offset" =>
           /\ ret = _avg_offset(NonNull(arg.times), arg.expected)
           /\ NonNull(arg.times) = <<>> => ret = None
    /\ fn = "_std" =>
           /\ ret = _std(NonNull(arg.values))
           /\ NonNull(arg.values) = <<>> => ret = None
    /\ fn = "_median" =>
           LET ms == Doubled(NonNull(arg.values))
               n == Len(ms)
           IN  IF n = 0 THEN ret = None
               ELSE ret = Fraction(KthSmallest(ms, ((n - 1) \div 2) + 1)
                                       + KthSmallest(ms, (n \div 2) + 1), 4)

\* the median of 5, None and 1 is 3
C24_Witness ==
    /\ fn = "_median"
    /\ arg.values = <<Float(5, 1), None, Float(1, 1)>>
    /\ ret = Float(3, 1)

-----------------------------------------------------------------------------
(* The week of a date: parse_google_sheets_csv (csv_parser.py:138-144) and  *)
(* _week_range_for_date (__main__.py:35-39)                                 *)

\* the days before January 1st of year y, counted from 0001-01-01
DaysBeforeYearAD(y) ==
    (y - 1) * 365 + (y - 1) \div 4 - (y - 1) \div 100 + (y - 1) \div 400

\* date.toordinal()
ToOrdinal(dt) ==
    DaysBeforeYearAD(dt.year) + DaysBeforeMonth(dt.year, dt.month) + dt.day

\* the date of ordinal n, searched from year y on
RECURSIVE OrdinalDateFrom(_, _)
OrdinalDateFrom(y, n) ==
    IF n > DaysBeforeYearAD(y + 1) THEN OrdinalDateFrom(y + 1, n)
    ELSE FromYearDay(y, 1, n - DaysBeforeYearAD(y))

\* date.fromordinal(n)
DateOfOrdinal(n) == OrdinalDateFrom((n - 1) \div 366 + 1, n)

\* date.weekday(): Monday is 0, Sunday is 6
Weekday(dt) == (ToOrdinal(dt) + 6) % 7

\* a week that starts on Monday: the days since the start are weekday()
DaysSinceWeekStart_Monday(dt) == Weekday(dt)

\* (date.weekday() + 1) % 7: the days since the last Sunday
DaysSinceWeekStart(dt) == (Weekday(dt) + 1) % 7

\* start_of_week = date - timedelta(days=(date.weekday() + 1) % 7)
StartOfWeek(dt) == DateOfOrdinal(ToOrdinal(dt) - DaysSinceWeekStart(dt))

\* end_of_week = start_of_week + timedelta(days=6)
EndOfWeek(dt) == DateOfOrdinal(ToOrdinal(StartOfWeek(dt)) + 6)

\* record['week_label'] of csv_parser.py:144
CsvWeekLabel(dt) ==
    LET start_of_week == StartOfWeek(dt)
        end_of_week == EndOfWeek(dt)
    IN  Text(Format02d(start_of_week.month) \o Format02d(start_of_week.day)
                 \o <<"-">>
                 \o Format02d(end_of_week.month) \o Format02d(end_of_week.day))

\* the records of parse_google_sheets_csv for rows with these dates: the date
\* and the week label (the answers of the rows play no part in the label)
parse_google_sheets_csv(dates) ==
    [i \in 1..Len(dates) |->
        [c \in {"date", "week_label"} |->
            IF c = "date" THEN dates[i] ELSE CsvWeekLabel(dates[i])]]

\* _week_range_for_date(d)
_week_range_for_date(d) == [start |-> StartOfWeek(d), end |-> EndOfWeek(d)]

\* the number of days after the first date that the dates of the rows span
MaxSpan == 21

FirstCsvDate == Date(2024, 12, 22)

\* the dates of the rows: a run of days over the turn of the year, and days
\* of other years
CsvDates ==
    {DateOfOrdinal(ToOrdinal(FirstCsvDate) + k) : k \in 0..MaxSpan}
        \cup {Date(2019, 12, 30), Date(2020, 1, 4), Date(2024, 2, 29),
              Date(2024, 3, 2), Date(2030, 12, 31)}

InitCsvWeek ==
    /\ fn = "csv"
    /\ arg \in [1..2 -> CsvDates]
    /\ ret = Pending
    /\ pc = "done"
    /\ nread = 0
    /\ line = <<>>
    /\ records = <<>>
    /\ week_label = None
    /\ week_days = <<>>
    /\ week_data = <<>>
    /\ result = "running"

CallParseGoogleSheetsCsv ==
    /\ fn = "csv"
    /\ fn' = "parse_google_sheets_csv"
    /\ ret' = parse_google_sheets_csv(arg)
    /\ UNCHANGED <<pc, nread, line, records, week_label, week_days, week_data,
                   result, arg>>

CallWeekRangeForDate ==
    /\ fn = "csv"
    /\ fn' = "_week_range_for_date"
    /\ ret' = _week_range_for_date(arg[1])
    /\ UNCHANGED <<pc, nread, line, records, week_label, week_days, week_data,
                   result, arg>>

NextCsvWeek == CallParseGoogleSheetsCsv \/ CallWeekRangeForDate

SpecCsvWeek == InitCsvWeek /\ [][NextCsvWeek]_vars

\* the ordinal of the latest Sunday not after the date; 2024-12-29 is a Sunday
SundayOrdinal(d) ==
    CHOOSE n \in (ToOrdinal(d) - 6)..ToOrdinal(d) :
        (n - ToOrdinal(Date(2024, 12, 29))) % 7 = 0

\* the label MMDD-MMDD of the week from the day of ordinal n to six days later
WeekLabelFrom(n) ==
    LET start == DateOfOrdinal(n)
        end == DateOfOrdinal(n + 6)
    IN  Text(Format02d(start.month) \o Format02d(start.day) \o <<"-">>
                 \o Format02d(end.month) \o Format02d(end.day))

\* the label of each record is the label of the Sunday-to-Saturday week that
\* holds its date, and _week_range_for_date gives that week
LabelIsWeekOfDate ==
    /\ fn = "parse_google_sheets_csv" =>
           \A i \in 1..Len(ret) :
               /\ ret[i]["date"] = arg[i]
               /\ ret[i]["week_label"] = WeekLabelFrom(SundayOrdinal(arg[i]))
    /\ fn = "_week_range_for_date" =>
           /\ ret.start = DateOfOrdinal(SundayOrdinal(arg[1]))
           /\ ret.end = DateOfOrdinal(SundayOrdinal(arg[1]) + 6)
           /\ ToOrdinal(ret.start) <= ToOrdinal(arg[1])
           /\ ToOrdinal(arg[1]) <= ToOrdinal(ret.end)

\* C25 as stated: the label of each record is the label of the
\* Sunday-to-Saturday week of its date, _week_range_for_date gives that week,
\* and two dates get the same label exactly when they are in the same week.
C25_SameLabelIffSameWeek ==
    /\ LabelIsWeekOfDate
    /\ fn = "parse_google_sheets_csv" =>
           \A i, j \in 1..Len(ret) :
               (ret[i]["week_label"] = ret[j]["week_label"])
                   <=> (SundayOrdinal(arg[i]) = SundayOrdinal(arg[j]))

\* C25: the label of each record is the label of the Sunday-to-Saturday week
\* of its date and _week_range_for_date gives that week; two dates of the
\* same week get the same label, and two dates whose weeks start in the same
\* year get the same label only when they are in the same week.
C25_SameLabelIffSameWeekOfYear ==
    /\ LabelIsWeekOfDate
    /\ fn = "parse_google_sheets_csv" =>
           \A i, j \in 1..Len(ret) :
               /\ SundayOrdinal(arg[i]) = SundayOrdinal(arg[j]) =>
                      ret[i]["week_label"] = ret[j]["week_label"]
               /\ (/\ ret[i]["week_label"] = ret[j]["week_label"]
                   /\ DateOfOrdinal(SundayOrdinal(arg[i])).year
                          = DateOfOrdinal(SundayOrdinal(arg[j])).year) =>
                      SundayOrdinal(arg[i]) = SundayOrdinal(arg[j])

\* January 1st and 3rd of 2025 both get the label 1229-0104
C25_Witness ==
    /\ fn = "parse_google_sheets_csv"
    /\ arg = <<Date(2025, 1, 1), Date(2025, 1, 3)>>
    /\ ret[1]["week_label"] = Text(<<"1", "2", "2", "9", "-", "0", "1", "0", "4">>)
    /\ ret[2]["week_label"] = ret[1]["week_label"]

-----------------------------------------------------------------------------
(***************************************************************************)
(* Google Forms responses: parse_timestamp_column and                      *)
(* convert_to_weekly_format (google_sheets_integration.py:168-229)         *)
(***************************************************************************)

\* pd.to_datetime(timestamp_str).date() for the Google Forms timestamp
\* format "MM/DD/YYYY HH:MM:SS"; any other text raises ValueError
TimestampDate(s) ==
    IF /\ Len(s) = 19
       /\ s[3] = "/" /\ s[6] = "/" /\ s[11] = " " /\ s[14] = ":" /\ s[17] = ":"
       /\ \A i \in (1..19) \ {3, 6, 11, 14, 17} : IsDigit(s[i])
       /\ ValidDate(ToInt(SubSeq(s, 7, 10)), ToInt(SubSeq(s, 1, 2)),
                    ToInt(SubSeq(s, 4, 5)))
       /\ ToInt(SubSeq(s, 12, 13)) < 24
       /\ ToInt(SubSeq(s, 15, 16)) < 60
       /\ ToInt(SubSeq(s, 18, 19)) < 60
    THEN Date(ToInt(SubSeq(s, 7, 10)), ToInt(SubSeq(s, 1, 2)),
              ToInt(SubSeq(s, 4, 5)))
    ELSE Raised

\* the index of the timestamp column (timestamp_col_idx = 0), counted from 1
TimestampColumn == 1

\* parse_timestamp_column: the dates of the rows whose timestamp parses; a
\* row with no timestamp cell or with a timestamp that raises is skipped
RECURSIVE parse_timestamp_column(_)
parse_timestamp_column(rows) ==
    IF rows = <<>> THEN <<>>
    ELSE LET row == Head(rows)
             rest == parse_timestamp_column(Tail(rows))
         IN  IF Len(row) >= TimestampColumn
                    /\ TimestampDate(row[TimestampColumn]).kind # "raise"
             THEN <<TimestampDate(row[TimestampColumn])>> \o rest
             ELSE rest

\* _parse_value for a column of STRING_COLS
SheetValue(value, column_name) ==
    IF value = <<>> \/ value = <<".">> THEN None ELSE Text(value)

\* the record of one response row under the date it is given: the mapped
\* cells the row has, stripped and parsed
SheetRecord(row, date, question_mapping) ==
    LET mapped == {m \in question_mapping :
                       /\ m[1] + 1 <= Len(row)
                       /\ QuestionColumn(m[2]) # NoColumn}
        cols == {QuestionColumn(m[2]) : m \in mapped}
        cell(c) == row[(CHOOSE m \in mapped : QuestionColumn(m[2]) = c)[1] + 1]
    IN  [c \in {"date"} \cup cols |->
            IF c = "date" THEN date ELSE SheetValue(Strip(cell(c)), c)]

\* the loop of convert_to_weekly_format: the i-th row with dates[i], while
\* i < len(dates)
RECURSIVE SheetRecords(_, _, _)
SheetRecords(rows, dates, question_mapping) ==
    IF rows = <<>> \/ dates = <<>> THEN <<>>
    ELSE <<SheetRecord(Head(rows), Head(dates), question_mapping)>>
             \o SheetRecords(Tail(rows), Tail(dates), question_mapping)

\* convert_to_weekly_format: the i-th row is given dates[i]; rows past the
\* end of dates are left out
convert_to_weekly_format(rows, question_mapping) ==
    SheetRecords(rows, parse_timestamp_column(rows), question_mapping)

\* the largest number of response rows
MaxResponses == 3

\* map_form_questions for the header <<Timestamp, Second wind?>>: column
\* index 1 is the question "17. Second wind?"
SecondWindMapping == {<<1, QUESTION_TO_COLUMN[Len(QUESTION_TO_COLUMN)][1]>>}

TimestampTexts ==
    {<<"1", "2", "/", "2", "5", "/", "2", "0", "2", "4", " ",
       "1", "4", ":", "3", "0", ":", "0", "0">>,
     <<"1", "2", "/", "2", "6", "/", "2", "0", "2", "4", " ",
       "1", "5", ":", "4", "5", ":", "3", "0">>,
     <<"i", "n", "v", "a", "l", "i", "d", " ", "d", "a", "t", "e">>}

AnswerTexts == {<<"y", "e", "s">>, <<" ", "n", "o">>, <<".">>}

\* response rows: a timestamp and an answer, a timestamp alone, no cell
ResponseRows ==
    {<<t, a>> : t \in TimestampTexts, a \in AnswerTexts}
        \cup {<<t>> : t \in TimestampTexts} \cup {<<>>}

ResponseLists == UNION {[1..n -> ResponseRows] : n \in 0..MaxResponses}

InitSheets ==
    /\ fn = "sheets"
    /\ arg \in ResponseLists
    /\ ret = Pending
    /\ pc = "done"
    /\ nread = 0
    /\ line = <<>>
    /\ records = <<>>
    /\ week_label = None
    /\ week_days = <<>>
    /\ week_data = <<>>
    /\ result = "running"

CallParseTimestampColumn ==
    /\ fn = "sheets"
    /\ fn' = "parse_timestamp_column"
    /\ ret' = parse_timestamp_column(arg)
    /\ UNCHANGED <<pc, nread, line, records, week_label, week_days, week_data,
                   result, arg>>

CallConvertToWeeklyFormat ==
    /\ fn = "sheets"
    /\ fn' = "convert_to_weekly_format"
    /\ ret' = convert_to_weekly_format(arg, SecondWindMapping)
    /\ UNCHANGED <<pc, nread, line, records, week_label, week_days, week_data,
                   result, arg>>

NextSheets == CallParseTimestampColumn \/ CallConvertToWeeklyFormat

SpecSheets == InitSheets /\ [][NextSheets]_vars

\* the row has a timestamp that parses
HasDate(row) ==
    Len(row) >= TimestampColumn /\ TimestampDate(row[TimestampColumn]).kind # "raise"

\* C29: every record that convert_to_weekly_format emits holds the answers of
\* a response row together with the date parsed from that row's timestamp,
\* whatever rows with unparseable timestamps come before it.
C29_RecordPairsAnswersWithOwnDate ==
    fn = "convert_to_weekly_format" =>
        \A k \in 1..Len(ret) :
            \E i \in 1..Len(arg) :
                /\ HasDate(arg[i])
                /\ ret[k] = SheetRecord(arg[i], TimestampDate(arg[i][TimestampColumn]),
                                        SecondWindMapping)

-----------------------------------------------------------------------------
(***************************************************************************)
(* The weekly statistics of a parsed log (__main__.py:49-77):              *)
(* df = parse_log(logfile), then compute_weekly_stats(df)                  *)
(***************************************************************************)

\* df = parse_log(logfile) (line 49): the call has returned its frame and its
\* locals are gone
AssignLogFrame ==
    /\ fn = "parse_log"
    /\ pc = "done"
    /\ result = "ok"
    /\ fn' = "run_analysis"
    /\ arg' = DataFrame(records)
    /\ nread' = 0
    /\ line' = <<>>
    /\ records' = <<>>
    /\ week_label' = None
    /\ week_days' = <<>>
    /\ week_data' = <<>>
    /\ UNCHANGED <<pc, result, ret>>

\* weekly_stats = compute_weekly_stats(df) (line 77).  An empty frame never
\* gets there: df.groupby('week_label') of line 54 raises for it.  The columns
\* that lines 54-57 add are no statistics columns.
WeeklyStatsOfLog ==
    /\ fn = "run_analysis"
    /\ arg.rows # <<>>
    /\ fn' = "compute_weekly_stats"
    /\ ret' \in compute_weekly_stats(arg)
    /\ UNCHANGED <<pc, nread, line, records, week_label, week_days, week_data,
                   result, arg>>

NextLogStats ==
    \/ SkipLine
    \/ WeekHeaderLine
    \/ QuestionLine
    \/ NoteLine
    \/ OtherLine
    \/ FinalFlush
    \/ DuplicateCheck
    \/ AssignLogFrame
    \/ WeeklyStatsOfLog

SpecLogStats == Init /\ [][NextLogStats]_vars

\* what the placeholder '.' stands for in the column
DotValue(col) == IF col = "alcohol_drinks" THEN Float(0, 1) ELSE None

\* a question line that sets its column gives each '.' among its answers the
\* value 0.0 in the drink-count column and None in every other column
DotIsZeroDrinksOnly ==
    \A d \in LogInputs :
        (/\ ReadsQuestion(d)
         /\ d.col # NoColumn
         /\ d.col \notin DOMAIN week_data
         /\ result' # "error") =>
            /\ d.col \in DOMAIN week_data'
            /\ \A k \in 1..Len(d.toks) :
                   d.toks[k] = <<".">> => week_data'[d.col][k] = DotValue(d.col)

\* the statistics of the drink count of each week count the days of 0.0: the
\* average is the sum of the other days' drinks over the number of all days
\* with a drink count
ZeroDrinkDaysCount ==
    WeeklyReturned =>
        \A label \in DOMAIN ret.items :
            LET vals == WeekValues(arg, label, "alcohol_drinks")
                zeros == SelectSeq(vals, LAMBDA v : v = Float(0, 1))
                others == SelectSeq(vals, LAMBDA v : v # Float(0, 1))
                row == ret.items[label]
            IN  zeros # <<>> =>
                    /\ row[<<"alcohol_drinks", "avg">>]
                           = Fraction(SumSeq(WholeNumbers(others)),
                                      Len(others) + Len(zeros))
                    /\ row[<<"alcohol_drinks", "median">>]
                           = MedianOfWhole(WholeNumbers(vals))
                    /\ row[<<"alcohol_drinks", "std">>]
                           = StdOfWhole(WholeNumbers(vals))

\* C30: in parse_log a '.' among the answers for the drink count is recorded
\* as 0.0 and a '.' for any other column as null, and a day of 0.0 counts as
\* an observation of zero drinks in the weekly average, median and standard
\* deviation of the drink count.
C30_DotIsZeroDrinkObservation ==
    [][DotIsZeroDrinksOnly]_vars /\ []ZeroDrinkDaysCount

\* a week of three days with the drink counts 1 and '.' and the second wind
\* '.' and yes: the average of the drinks is a half, the second wind of the
\* first day is null, the third day has no drink count
C30_Witness ==
    /\ WeeklyReturned
    /\ Len(arg.rows) = 3
    /\ \A i \in 1..2 : {"second_wind", "alcohol_drinks"} \subseteq DOMAIN arg.rows[i]
    /\ arg.rows[1]["second_wind"] = None
    /\ arg.rows[2]["second_wind"] # None
    /\ arg.rows[1]["alcohol_drinks"] = Float(1, 1)
    /\ arg.rows[2]["alcohol_drinks"] = Float(0, 1)
    /\ "alcohol_drinks" \notin DOMAIN arg.rows[3]
    /\ \E label \in DOMAIN ret.items :
           /\ ret.items[label][<<"alcohol_drinks", "avg">>] = Float(1, 2)
           /\ ret.items[label][<<"alcohol_drinks", "median">>] = Float(1, 2)

=============================================================================
